---- MODULE Spec2Model ----
(***************************************************************************)
(* Model of the per-DUT supervisor of radhelper/radiation-setup:           *)
(*   server/machine.py         Machine (the supervisor thread)             *)
(*   server/machine_events.py  MachineEvents (event accounting, status)    *)
(*   server/command_factory.py CommandFactory (command rotation)           *)
(*                                                                         *)
(* Machine.run is modelled at the granularity of its blocking points: the  *)
(* loop test, the receive with its handling, and the three rungs of the    *)
(* recovery ladder of the timeout handler.  Machine calls its              *)
(* collaborators through the interface machine.py uses (a 4-tuple from     *)
(* get_commands_and_test_info, the property is_command_window_timed_out,   *)
(* reboot_machine taking the stop event).  Time is in seconds; floats of   *)
(* the wire protocol are counted in whole units.                           *)
(***************************************************************************)
EXTENDS Integers, Sequences, FiniteSets, TLC

(* ---------------- program constants ---------------- *)
LONG_REBOOT_WAIT_TIME_AFTER_PROBLEM == 1800
MAX_TELNET_TRIES == 4
MAX_SEQUENTIALLY_HARD_REBOOTS == 6
MAX_SEQUENTIALLY_SOFT_APP_REBOOTS == 3
MAX_SEQUENTIALLY_SOFT_OS_REBOOTS == 3
POWER_SWITCH_DEFAULT_TIME_REST == 4
MAX_CONSECUTIVE_HARD_REBOOTS == 6
SLEEP_TIME_AFTER_FAILED_REBOOTS == 30 * 60
ONE_HOUR_WINDOW == 3600

ALL_POSSIBLE_CONNECTION_TYPES ==
    <<"#IT", "#HEADER", "#BEGIN", "#END", "#INF", "#ERR", "#SDC", "#ABORT">>

(* ---------------- bounds of the model ---------------- *)
\* loop iterations (receives and timeouts) of Machine.run under Spec
MaxLoops == 2
\* loop iterations under SpecLadder (timeouts only)
MaxLadderLoops == 13
\* number of receives that block for longer than the command window
MaxLongWaits == 1
\* receives entered when no receive blocks for long
MaxEventLoops == 4
\* the largest reboot counter a summary is derived from
MaxCount == 8

\* Python's None, for timestamps (which are >= 0) and for object references
None == 0 - 1

VARIABLES
    pc,             \* position of Machine.run
    stop_event,     \* Machine.__stop_event
    machine,        \* the private fields of Machine (counters, logger)
    machine_events, \* the fields of MachineEvents
    command_factory,\* the fields of CommandFactory
    disable_os_soft_reboot, \* configuration flag of the DUT
    clock,          \* time.time()
    loops,          \* number of receive attempts made so far
    summary,        \* the status of the last summary created
    call,           \* the arguments of a function studied on its own
    returned,       \* what that function returned
    server,         \* what surrounds the supervisor when it is studied: server.py,
                    \* the ServerStatus thread, the other supervisors
    cycle,          \* what the handler did since the last receive was entered
    history         \* what happened so far (read by the properties only)

vars == <<pc, stop_event, machine, machine_events, command_factory,
          disable_os_soft_reboot, clock, loops, summary, call, returned, server,
                   cycle, history>>

(* ---------------- MachineEvents ---------------- *)
MachineEventsInit ==
    [ benchmark_start |-> None, last_run_start |-> None, last_run_end |-> None,
      run_start |-> None,
      benchmark_acc_time |-> 0, run_acc_time |-> 0,
      benchmark_sdcs |-> 0, benchmark_logs |-> 0,
      first_log_time |-> None, last_log_time |-> None,
      benchmark_iterations |-> 0, run_iterations |-> 0,
      run_sdcs |-> 0, run_logs |-> 0,
      first_sdc_time |-> None, last_sdc_time |-> None,
      benchmark_dues |-> 0, first_due_time |-> None, last_due_time |-> None,
      benchmark_soft_reboots |-> 0, last_soft_reboot_time |-> None,
      benchmark_hard_reboots |-> 0, last_hard_reboot_time |-> None ]

start_benchmark(e, t) == [e EXCEPT !.benchmark_start = t]

start_run(e, t) ==
    [e EXCEPT !.run_start = t,
              !.run_logs = 0,
              !.run_iterations = 0,
              !.run_sdcs = 0,
              !.run_acc_time = 0,
              !.last_soft_reboot_time = None,
              !.last_hard_reboot_time = None]

end_run(e, t) ==
    [e EXCEPT !.last_run_start = e.run_start,
              !.last_run_end = t,
              !.run_start = None,
              !.benchmark_sdcs = @ + e.run_sdcs,
              !.benchmark_acc_time = @ + e.run_acc_time,
              !.benchmark_iterations = @ + e.run_iterations]

log(e, t) ==
    [e EXCEPT !.first_log_time = IF @ = None THEN t ELSE @,
              !.last_log_time = t,
              !.benchmark_logs = @ + 1,
              !.run_logs = @ + 1]

sdc(e, t) == log([e EXCEPT !.run_sdcs = @ + 1], t)

\* iteration opening a run when none is in progress
iteration_starts_run(e, info_entry, t) ==
    log([e EXCEPT !.run_acc_time = info_entry.accumulated_time,
                  !.run_iterations = info_entry.iterations,
                  !.run_start = IF @ = None THEN t ELSE @], t)

iteration(e, info_entry, t) ==
    log([e EXCEPT !.run_acc_time = info_entry.accumulated_time,
                  !.run_iterations = info_entry.iterations], t)

soft_reboot(e, t) ==
    [e EXCEPT !.benchmark_soft_reboots = @ + 1, !.last_soft_reboot_time = t]

hard_reboot(e, t) ==
    [e EXCEPT !.benchmark_hard_reboots = @ + 1, !.last_hard_reboot_time = t]

due(e, t) ==
    end_run([e EXCEPT !.benchmark_dues = @ + 1,
                      !.first_due_time = IF @ = None THEN t ELSE @,
                      !.last_due_time = t], t)

(* ---------------- datagrams and their parsing ---------------- *)
\* A datagram: whether it decodes as ASCII, the characters its payload
\* (after byte 0) starts with, and what follows a "#IT": either the fields
\* of the line format (the formats {:d} and {:f} take a sign; here the
\* accumulated time is two units an iteration), or text that does not match it.
Datagram(ascii, head, matches, it, acc) ==
    [ascii |-> ascii, head |-> head, matches |-> matches, iter |-> it, acc_time |-> acc]

Datagrams ==
    { Datagram(TRUE, "#IT", TRUE, i, 2 * i) : i \in {0 - 1, 1} }
    \cup { Datagram(TRUE, "#IT", FALSE, 0, 0) }
    \cup { Datagram(TRUE, h, FALSE, 0, 0) :
             h \in {"#HEADER", "#BEGIN", "#END", "#INF", "#ERR", "#SDC", "#ABORT", "#FOO"} }
    \cup { Datagram(FALSE, "", FALSE, 0, 0) }

\* parse_it_line: parse.parse gives None for a line that does not match, and
\* subscripting None raises TypeError.
parse_it_line(d) ==
    IF d.matches
    THEN [raised |-> "", iterations |-> d.iter, accumulated_time |-> d.acc_time]
    ELSE [raised |-> "TypeError", iterations |-> 0, accumulated_time |-> 0]

\* The classification loop of Machine.run (first matching prefix wins).
RECURSIVE FirstMatch(_, _)
FirstMatch(head, i) ==
    IF i > Len(ALL_POSSIBLE_CONNECTION_TYPES) THEN "UnknownConn:" \o head
    ELSE IF head = ALL_POSSIBLE_CONNECTION_TYPES[i] THEN ALL_POSSIBLE_CONNECTION_TYPES[i]
    ELSE FirstMatch(head, i + 1)

connection_type_str(d) == FirstMatch(d.head, 1)

\* MachineEvents._handle_event: the new fields and the exception raised ("" if none)
handle_event_inner(e, event_type, d, t) ==
    IF event_type = "#IT" THEN
        LET line_values == parse_it_line(d) IN
        IF line_values.raised # "" THEN [ev |-> e, raised |-> line_values.raised]
        ELSE [ev |-> iteration(e, line_values, t), raised |-> ""]
    ELSE IF event_type = "#HEADER" THEN [ev |-> start_run(e, t), raised |-> ""]
    ELSE IF event_type = "#END" THEN [ev |-> end_run(e, t), raised |-> ""]
    ELSE IF event_type = "#INF" THEN [ev |-> log(e, t), raised |-> ""]
    ELSE IF event_type = "#ERR" THEN [ev |-> log(e, t), raised |-> ""]
    ELSE IF event_type = "#SDC" THEN [ev |-> sdc(e, t), raised |-> ""]
    ELSE IF event_type = "#ABORT" THEN [ev |-> due(e, t), raised |-> ""]
    ELSE IF event_type = "#LOGFILE" THEN [ev |-> e, raised |-> ""]
    ELSE [ev |-> e, raised |-> "ValueError"]

\* MachineEvents.handle_event: only ValueError is caught
handle_event(e, event_type, d, t) ==
    LET r == handle_event_inner(e, event_type, d, t) IN
    IF r.raised = "ValueError" THEN [ev |-> r.ev, raised |-> ""] ELSE r

(* ---------------- status derivation ---------------- *)
\* MachineEvents.create_summary, the status it derives
\* the derivation with <= for < in the test of REBOOTING
DeriveStatus_le(run_start, consecutive_soft_reboots, consecutive_hard_reboots) ==
    IF run_start # None THEN "ACTIVE"
    ELSE IF consecutive_hard_reboots <= MAX_CONSECUTIVE_HARD_REBOOTS
            /\ consecutive_soft_reboots > 0 THEN "REBOOTING"
    ELSE IF consecutive_hard_reboots = MAX_CONSECUTIVE_HARD_REBOOTS THEN "SLEEPING"
    ELSE "UNKNOWN"

DeriveStatus(run_start, consecutive_soft_reboots, consecutive_hard_reboots) ==
    IF run_start # None THEN "ACTIVE"
    ELSE IF consecutive_hard_reboots < MAX_CONSECUTIVE_HARD_REBOOTS
            /\ consecutive_soft_reboots > 0 THEN "REBOOTING"
    ELSE IF consecutive_hard_reboots = MAX_CONSECUTIVE_HARD_REBOOTS THEN "SLEEPING"
    ELSE "UNKNOWN"

(* ---------------- CommandFactory ---------------- *)
\* the concatenated catalogs, in declaration order; a command is named by
\* its position
json_data_list == <<1, 2, 3>>

\* collections.deque.pop() takes the right end
DequePop(q) == [value |-> q[Len(q)], rest |-> SubSeq(q, 1, Len(q) - 1)]

check_and_refill_the_queue(q) == IF q = <<>> THEN json_data_list ELSE q

CommandFactoryInit(t) ==
    LET p == DequePop(check_and_refill_the_queue(<<>>)) IN
    [cmd_queue |-> p.rest, current_command |-> p.value, start_timestamp |-> t]

\* the window test with >= for >
is_command_window_timeout_ge(cf, now) == now - cf.start_timestamp >= ONE_HOUR_WINDOW

is_command_window_timeout(cf, now) == now - cf.start_timestamp > ONE_HOUR_WINDOW

get_commands_and_test_info(cf, now) ==
    LET q == check_and_refill_the_queue(cf.cmd_queue) IN
    IF is_command_window_timeout(cf, now)
    THEN LET p == DequePop(q) IN
         [cmd_queue |-> p.rest, current_command |-> p.value, start_timestamp |-> now]
    ELSE [cf EXCEPT !.cmd_queue = q]

(* ---------------- Machine ---------------- *)
\* the fields of Machine after its constructor: the counters, no logger, and
\* the UDP socket bound to the receiving port
MachineInit ==
    [ soft_app_reboot_count |-> 0, soft_os_reboot_count |-> 0,
      hard_reboot_count |-> 0, dut_logging_obj |-> None,
      messages_socket |-> "bound" ]

\* What the remote shell does during one __soft_app_reboot: the number of
\* tries that end in EOFError (or an OSError other than EHOSTUNREACH), and
\* how the try after them ends.
TelnetRuns ==
    [ eofs : 0..MAX_TELNET_TRIES, outcome : {"ok", "EHOSTUNREACH", "RuntimeError"} ]

\* what a command to the power switch can return
SwitchStatuses ==
    {"SUCCESS", "HTTP_ERROR", "CONNECTION_ERROR", "TIMEOUT_ERROR", "GENERAL_ERROR"}

\* What the remote shell does during one __soft_os_reboot
TelnetOutcomes == {"ok", "EHOSTUNREACH", "RuntimeError", "EOFError"}

\* the check of the configuration in both directions
incorrect_configuration_iff(previous_log_end_status, dut_logging_obj) ==
    (previous_log_end_status = "None") # (dut_logging_obj = None)

\* the check of the configuration at the head of __soft_app_reboot
incorrect_configuration(previous_log_end_status, dut_logging_obj) ==
    previous_log_end_status = "None" /\ dut_logging_obj # None

\* the replacement of the logger without finishing the one installed
replace_dut_logging_obj_unfinished(dut_logging_obj, previous_log_end_status, test_name) ==
    [log |-> <<[op |-> "DUTLogging", arg |-> test_name]>>,
     dut_logging_obj |-> test_name]

\* the replacement of the logger after a successful launch: what is called
\* on loggers, in order, and the logger installed
replace_dut_logging_obj(dut_logging_obj, previous_log_end_status, test_name) ==
    [log |-> (IF dut_logging_obj # None
              THEN <<[op |-> "finish_this_dut_log", arg |-> previous_log_end_status]>>
              ELSE <<>>)
             \o <<[op |-> "DUTLogging", arg |-> test_name]>>,
     dut_logging_obj |-> test_name]

\* Machine.__soft_app_reboot: the status returned (raised # "" when the
\* bare raise of the configuration check ends the thread), the fields of
\* Machine and of CommandFactory after it, the telnet sessions it opened and
\* what it called on loggers.
Machine_soft_app_reboot(m, cf, stop, previous_log_end_status, tn, now) ==
    LET early(status, raised) ==
            [status |-> status, raised |-> raised, m |-> m, cf |-> cf,
             sessions |-> 0, log |-> <<>>]
    IN
    IF stop THEN early("THREAD_EVENT_IS_SET", "")
    ELSE IF incorrect_configuration(previous_log_end_status, m.dut_logging_obj) THEN
        early("", "RuntimeError")
    ELSE IF m.soft_app_reboot_count >= MAX_SEQUENTIALLY_SOFT_APP_REBOOTS THEN
        early("MAXIMUM_APP_REBOOT_REACHED", "")
    ELSE
        LET cf2 == get_commands_and_test_info(cf, now)
            failed(status, sessions) ==
                [status |-> status, raised |-> "", m |-> m, cf |-> cf2,
                 sessions |-> sessions, log |-> <<>>]
        IN
        IF tn.eofs >= MAX_TELNET_TRIES THEN
            failed("TELNET_CONNECTION_ERROR", MAX_TELNET_TRIES)
        ELSE IF tn.outcome = "EHOSTUNREACH" THEN failed("HOST_UNREACHABLE", tn.eofs + 1)
        ELSE IF tn.outcome = "RuntimeError" THEN
            failed("TELNET_CONNECTION_ERROR", tn.eofs + 1)
        ELSE
            LET l == replace_dut_logging_obj(m.dut_logging_obj, previous_log_end_status,
                                             cf2.current_command)
            IN
            [status |-> "SUCCESS", raised |-> "",
             m |-> [m EXCEPT !.dut_logging_obj = l.dut_logging_obj,
                             !.soft_app_reboot_count = @ + 1],
             cf |-> cf2, sessions |-> tn.eofs + 1, log |-> l.log]

\* __soft_os_reboot with > for >= in the test of the maximum
Machine_soft_os_reboot_gt(m, stop, disabled, tn) ==
    IF stop THEN [status |-> "THREAD_EVENT_IS_SET", sessions |-> 0, m |-> m]
    ELSE IF disabled THEN [status |-> "DISABLED_SOFT_OS_REBOOT", sessions |-> 0, m |-> m]
    ELSE IF m.soft_os_reboot_count > MAX_SEQUENTIALLY_SOFT_OS_REBOOTS THEN
        [status |-> "MAXIMUM_OS_REBOOT_REACHED", sessions |-> 0, m |-> m]
    ELSE IF tn = "ok" THEN
        [status |-> "SUCCESS", sessions |-> 1,
         m |-> [m EXCEPT !.soft_app_reboot_count = 0, !.soft_os_reboot_count = @ + 1]]
    ELSE IF tn = "EHOSTUNREACH" THEN
        [status |-> "HOST_UNREACHABLE", sessions |-> 1, m |-> m]
    ELSE [status |-> "TELNET_CONNECTION_ERROR", sessions |-> 1, m |-> m]

\* __soft_os_reboot without the count of the reboots it made
Machine_soft_os_reboot_uncounted(m, stop, disabled, tn) ==
    IF stop THEN [status |-> "THREAD_EVENT_IS_SET", sessions |-> 0, m |-> m]
    ELSE IF disabled THEN [status |-> "DISABLED_SOFT_OS_REBOOT", sessions |-> 0, m |-> m]
    ELSE IF m.soft_os_reboot_count >= MAX_SEQUENTIALLY_SOFT_OS_REBOOTS THEN
        [status |-> "MAXIMUM_OS_REBOOT_REACHED", sessions |-> 0, m |-> m]
    ELSE IF tn = "ok" THEN
        [status |-> "SUCCESS", sessions |-> 1,
         m |-> [m EXCEPT !.soft_app_reboot_count = 0]]
    ELSE IF tn = "EHOSTUNREACH" THEN
        [status |-> "HOST_UNREACHABLE", sessions |-> 1, m |-> m]
    ELSE [status |-> "TELNET_CONNECTION_ERROR", sessions |-> 1, m |-> m]

\* __soft_os_reboot with the check of the configuration before the check of stop
Machine_soft_os_reboot_disabled_first(m, stop, disabled, tn) ==
    IF disabled THEN [status |-> "DISABLED_SOFT_OS_REBOOT", sessions |-> 0, m |-> m]
    ELSE IF stop THEN [status |-> "THREAD_EVENT_IS_SET", sessions |-> 0, m |-> m]
    ELSE IF m.soft_os_reboot_count >= MAX_SEQUENTIALLY_SOFT_OS_REBOOTS THEN
        [status |-> "MAXIMUM_OS_REBOOT_REACHED", sessions |-> 0, m |-> m]
    ELSE IF tn = "ok" THEN
        [status |-> "SUCCESS", sessions |-> 1,
         m |-> [m EXCEPT !.soft_app_reboot_count = 0, !.soft_os_reboot_count = @ + 1]]
    ELSE IF tn = "EHOSTUNREACH" THEN
        [status |-> "HOST_UNREACHABLE", sessions |-> 1, m |-> m]
    ELSE [status |-> "TELNET_CONNECTION_ERROR", sessions |-> 1, m |-> m]

\* Machine.__soft_os_reboot: the status, the sessions it opened itself and
\* the fields of Machine after it (the status of __wait_for_booting is not
\* used)
Machine_soft_os_reboot(m, stop, disabled, tn) ==
    IF stop THEN [status |-> "THREAD_EVENT_IS_SET", sessions |-> 0, m |-> m]
    ELSE IF disabled THEN [status |-> "DISABLED_SOFT_OS_REBOOT", sessions |-> 0, m |-> m]
    ELSE IF m.soft_os_reboot_count >= MAX_SEQUENTIALLY_SOFT_OS_REBOOTS THEN
        [status |-> "MAXIMUM_OS_REBOOT_REACHED", sessions |-> 0, m |-> m]
    ELSE IF tn = "ok" THEN
        [status |-> "SUCCESS", sessions |-> 1,
         m |-> [m EXCEPT !.soft_app_reboot_count = 0, !.soft_os_reboot_count = @ + 1]]
    ELSE IF tn = "EHOSTUNREACH" THEN
        [status |-> "HOST_UNREACHABLE", sessions |-> 1, m |-> m]
    ELSE [status |-> "TELNET_CONNECTION_ERROR", sessions |-> 1, m |-> m]

\* __hard_reboot with >= for > in the test of the maximum
Machine_hard_reboot_ge(m, stop) ==
    IF stop THEN [status |-> "THREAD_EVENT_IS_SET", rest |-> 0, m |-> m]
    ELSE
        LET long == m.hard_reboot_count >= MAX_SEQUENTIALLY_HARD_REBOOTS IN
        [status |-> "None",
         rest |-> IF long THEN LONG_REBOOT_WAIT_TIME_AFTER_PROBLEM
                  ELSE POWER_SWITCH_DEFAULT_TIME_REST,
         m |-> [m EXCEPT !.hard_reboot_count = IF long THEN 0 ELSE @ + 1,
                         !.soft_app_reboot_count = 0,
                         !.soft_os_reboot_count = 0]]

\* __hard_reboot without the reset of soft_os_reboot_count
Machine_hard_reboot_keeps_os(m, stop) ==
    IF stop THEN [status |-> "THREAD_EVENT_IS_SET", rest |-> 0, m |-> m]
    ELSE
        LET long == m.hard_reboot_count > MAX_SEQUENTIALLY_HARD_REBOOTS IN
        [status |-> "None",
         rest |-> IF long THEN LONG_REBOOT_WAIT_TIME_AFTER_PROBLEM
                  ELSE POWER_SWITCH_DEFAULT_TIME_REST,
         m |-> [m EXCEPT !.hard_reboot_count = IF long THEN 0 ELSE @ + 1,
                         !.soft_app_reboot_count = 0]]

\* Machine.__hard_reboot: the rest between OFF and ON it asks of
\* reboot_machine (0: no power cycle), the fields of Machine after it
Machine_hard_reboot(m, stop) ==
    IF stop THEN [status |-> "THREAD_EVENT_IS_SET", rest |-> 0, m |-> m]
    ELSE
        LET long == m.hard_reboot_count > MAX_SEQUENTIALLY_HARD_REBOOTS IN
        [status |-> "None",
         rest |-> IF long THEN LONG_REBOOT_WAIT_TIME_AFTER_PROBLEM
                  ELSE POWER_SWITCH_DEFAULT_TIME_REST,
         m |-> [m EXCEPT !.hard_reboot_count = IF long THEN 0 ELSE @ + 1,
                         !.soft_app_reboot_count = 0,
                         !.soft_os_reboot_count = 0]]

\* the status a summary built now would carry
Status ==
    DeriveStatus(machine_events.run_start, machine.soft_app_reboot_count,
                 machine.hard_reboot_count)

(* ---------------- the supervisor thread ---------------- *)
\* the statuses the rungs of the ladder returned in this handler ("-": not called),
\* what the power switch returned for its OFF and ON commands, and the status
\* of the launch that follows a hard reboot
NoCycle ==
    [app |-> "-", os |-> "-", hard |-> "-", rest |-> 0, log |-> <<>>,
     off |-> "-", on |-> "-", relaunch |-> "-"]

\* left: whether the status has left ACTIVE, and whether a #IT was handled since
\* from_zero: a series of timeouts is in progress that began with the three
\*   reboot counters at zero, with no #IT handled since
\* os_attempts: soft OS reboots attempted in that series
\* power_cycles: hard reboots performed since the last #IT
\* sdc_events: #SDC datagrams accounted; stray_sdc: one came outside of a run
\* open_logs: loggers created and not finished
\* switch_failed: the commands to the power switch that returned another
\*   status than SUCCESS
HistoryInit ==
    [ left |-> "no", from_zero |-> FALSE, os_attempts |-> 0, power_cycles |-> 0,
      sdc_events |-> 0, stray_sdc |-> FALSE, open_logs |-> 0,
      switch_failed |-> {} ]

\* loggers created less loggers finished in a list of calls on loggers
RECURSIVE Opened(_)
Opened(calls) ==
    IF calls = <<>> THEN 0
    ELSE (IF Head(calls).op = "DUTLogging" THEN 1 ELSE 0 - 1) + Opened(Tail(calls))

NextLeft(left, status, status2, it_handled) ==
    IF status2 = "ACTIVE" THEN "no"
    ELSE IF status = "ACTIVE" THEN "left"
    ELSE IF it_handled /\ left = "left" THEN "left_it"
    ELSE left

Init ==
    /\ pc = "init"
    /\ stop_event = FALSE
    /\ machine = MachineInit
    /\ machine_events = MachineEventsInit
    /\ command_factory = CommandFactoryInit(0)
    /\ disable_os_soft_reboot \in BOOLEAN
    /\ clock = 0
    /\ loops = 0
    /\ summary = "none"
    /\ call = "none"
    /\ returned = "none"
    /\ server = "none"
    /\ cycle = NoCycle
    /\ history = HistoryInit

\* Machine.run up to the loop: switch ON, wait for the boot, first launch,
\* start_benchmark
StartWith(switch_statuses, runs) ==
    /\ pc = "init"
    /\ \E tn \in runs :
         LET r == Machine_soft_app_reboot(machine, command_factory, stop_event,
                                          "None", tn, clock) IN
         /\ machine' = r.m
         /\ command_factory' = r.cf
         /\ \E turn_on_status \in switch_statuses :
              cycle' = [NoCycle EXCEPT !.app = r.status, !.log = r.log,
                                       !.on = turn_on_status]
    /\ machine_events' = start_benchmark(machine_events, clock)
    /\ history' = [history EXCEPT !.open_logs = @ + Opened(cycle'.log),
                 !.left = NextLeft(@, Status, Status', FALSE),
                 !.switch_failed = IF cycle'.on # "SUCCESS" THEN {"turn_on"} ELSE {}]
    /\ pc' = "loop"
    /\ UNCHANGED <<stop_event, disable_os_soft_reboot, clock, loops, summary, call,
                   server, returned>>

\* Machine.run up to the loop, with a power switch that does what it is asked
Start == StartWith({"SUCCESS"}, TelnetRuns)

\* the test of the while loop, stop raised
LoopExit ==
    /\ pc = "loop"
    /\ stop_event
    /\ pc' = "exited"
    /\ UNCHANGED <<stop_event, machine, machine_events, command_factory,
                   disable_os_soft_reboot, clock, loops, summary, call, server, returned,
                   cycle, history>>

\* the test of the while loop, stop not raised: block in recvfrom, for
\* wait seconds.  Time passes here: what a rung of the ladder takes is
\* counted with the wait that follows it.
LoopEnter(max_loops, waits) ==
    /\ pc = "loop"
    /\ ~stop_event
    /\ loops < max_loops
    /\ \E wait \in waits :
         /\ wait > 0 => clock < MaxLongWaits * (ONE_HOUR_WINDOW + 1)
         /\ clock' = clock + wait
    /\ loops' = loops + 1
    /\ cycle' = NoCycle
    /\ pc' = "recv"
    /\ UNCHANGED <<stop_event, machine, machine_events, command_factory,
                   disable_os_soft_reboot, summary, call, server, returned, history>>

\* whether the try block of Machine.run ends in an exception on datagram d:
\* calling the absent logger, UnicodeDecodeError, or what handle_event lets out
ReceiveRaises(d) ==
    \/ machine.dut_logging_obj = None
    \/ ~d.ascii
    \/ handle_event(machine_events, connection_type_str(d), d, clock).raised # ""

\* datagram d arrives: the body of the try block of Machine.run
ReceiveDatagram(d) ==
    /\ pc = "recv"
    /\ LET conn == connection_type_str(d)
           h == handle_event(machine_events, conn, d, clock)
           m1 == IF conn = "#IT"
                 THEN [machine EXCEPT !.soft_app_reboot_count = 0,
                                      !.hard_reboot_count = 0]
                 ELSE machine
       IN
       IF ReceiveRaises(d) THEN
           /\ pc' = "crashed"
           /\ UNCHANGED <<machine, machine_events, command_factory, cycle, history>>
       ELSE
           /\ pc' = "loop"
           /\ machine_events' = h.ev
           /\ IF is_command_window_timeout(command_factory, clock)
              THEN \E tn \in TelnetRuns :
                     LET r == Machine_soft_app_reboot(m1, command_factory,
                                  stop_event, "NORMAL_END", tn, clock) IN
                     /\ machine' = r.m
                     /\ command_factory' = r.cf
                     /\ cycle' = [NoCycle EXCEPT !.app = r.status, !.log = r.log]
              ELSE /\ machine' = m1
                   /\ command_factory' = command_factory
                   /\ cycle' = NoCycle
           /\ history' =
                [history EXCEPT
                   !.open_logs = @ + Opened(cycle'.log),
                 !.left = NextLeft(@, Status, Status', conn = "#IT"),
                   !.from_zero = IF conn = "#IT" THEN FALSE ELSE @,
                   !.power_cycles = IF conn = "#IT" THEN 0 ELSE @,
                   !.sdc_events = IF conn = "#SDC" THEN @ + 1 ELSE @,
                   !.stray_sdc = @ \/ (conn = "#SDC" /\ machine_events.run_start = None)]
    /\ UNCHANGED <<stop_event, disable_os_soft_reboot, clock, loops, summary, call,
                   server, returned>>

Receive == \E d \in Datagrams : ReceiveDatagram(d)

\* the first rung without its continue
after_soft_app_reboot_no_continue(status) == "soft_os"

\* where Machine.run goes after the first rung (continue on SUCCESS)
after_soft_app_reboot(status) == IF status = "SUCCESS" THEN "loop" ELSE "soft_os"

\* where Machine.run goes after the second rung (relaunch and continue on SUCCESS)
after_soft_os_reboot(status) == IF status = "SUCCESS" THEN "loop" ELSE "hard"

\* the third rung ending the supervisor when the power switch fails
after_hard_reboot_checked(off_status, on_status) ==
    IF off_status = "SUCCESS" /\ on_status = "SUCCESS" THEN "loop" ELSE "crashed"

\* where Machine.run goes after the third rung, whatever the power switch
\* returned: the statuses are logged only
after_hard_reboot(off_status, on_status) == "loop"

\* the receive times out: end_run, soft_reboot and the first rung, with the
\* remote shell doing one of runs
TimeoutWith(runs) ==
    /\ pc = "recv"
    /\ \E tn \in runs :
         LET r == Machine_soft_app_reboot(machine, command_factory, stop_event,
                                          "SOFT_APP_REBOOT", tn, clock) IN
         /\ machine' = r.m
         /\ command_factory' = r.cf
         /\ cycle' = [NoCycle EXCEPT !.app = r.status, !.log = r.log]
         /\ pc' = after_soft_app_reboot(r.status)
    /\ machine_events' = soft_reboot(end_run(machine_events, clock), clock)
    /\ LET zero == /\ machine.soft_app_reboot_count = 0
                   /\ machine.soft_os_reboot_count = 0
                   /\ machine.hard_reboot_count = 0
       IN history' =
            [history EXCEPT
               !.open_logs = @ + Opened(cycle'.log),
                 !.left = NextLeft(@, Status, Status', FALSE),
               !.from_zero = @ \/ zero,
               !.os_attempts = IF zero THEN 0 ELSE @]
    /\ UNCHANGED <<stop_event, disable_os_soft_reboot, clock, loops, summary, call,
                   server, returned>>

\* the receive times out, whatever the remote shell does
Timeout == TimeoutWith(TelnetRuns)

\* the second rung: __soft_os_reboot and, if it succeeds, the relaunch
SoftOsRungWith(outcomes, runs) ==
    /\ pc = "soft_os"
    /\ \E tos \in outcomes, tn \in runs :
         LET o == Machine_soft_os_reboot(machine, stop_event,
                                         disable_os_soft_reboot, tos)
             r == Machine_soft_app_reboot(o.m, command_factory, stop_event,
                                          "SOFT_OS_REBOOT", tn, clock)
             attempted == o.status \in {"SUCCESS", "HOST_UNREACHABLE",
                                       "TELNET_CONNECTION_ERROR"}
         IN
         /\ cycle' = [cycle EXCEPT !.os = o.status,
                                  !.log = IF o.status = "SUCCESS" THEN r.log ELSE <<>>]
         /\ pc' = after_soft_os_reboot(o.status)
         /\ machine_events' = machine_events
         /\ IF o.status = "SUCCESS"
            THEN /\ machine' = r.m
                 /\ command_factory' = r.cf
            ELSE /\ machine' = o.m
                 /\ command_factory' = command_factory
         /\ history' =
              [history EXCEPT
                 !.open_logs = @ + Opened(cycle'.log),
                 !.left = NextLeft(@, Status, Status', FALSE),
                 !.os_attempts = IF attempted THEN @ + 1 ELSE @]
    /\ UNCHANGED <<stop_event, disable_os_soft_reboot, clock, loops, summary, call,
                   server, returned>>

\* the second rung, whatever the remote shell does
SoftOsRung == SoftOsRungWith(TelnetOutcomes, TelnetRuns)

\* the third rung: events.hard_reboot, __hard_reboot and the relaunch
HardRungWith(switch_statuses, runs) ==
    /\ pc = "hard"
    /\ \E tn \in runs :
         LET hr == Machine_hard_reboot(machine, stop_event)
             r == Machine_soft_app_reboot(hr.m, command_factory, stop_event,
                                          "HARD_REBOOT", tn, clock)
         IN
         /\ machine' = r.m
         /\ command_factory' = r.cf
         /\ \E off_status \in switch_statuses, on_status \in switch_statuses :
              cycle' = [cycle EXCEPT !.hard = hr.status, !.rest = hr.rest,
                                     !.log = r.log, !.relaunch = r.status,
                                     !.off = IF hr.rest > 0 THEN off_status ELSE "-",
                                     !.on = IF hr.rest > 0 THEN on_status ELSE "-"]
         /\ machine_events' = hard_reboot(machine_events, clock)
         /\ history' =
              [history EXCEPT
                 !.open_logs = @ + Opened(cycle'.log),
                 !.left = NextLeft(@, Status, Status', FALSE),
                 !.power_cycles = IF hr.rest > 0 THEN @ + 1 ELSE @,
                 !.switch_failed =
                     @ \cup (IF cycle'.off \notin {"-", "SUCCESS"} THEN {"OFF"} ELSE {})
                       \cup (IF cycle'.on \notin {"-", "SUCCESS"} THEN {"ON"} ELSE {})]
    /\ pc' = IF cycle'.rest > 0 THEN after_hard_reboot(cycle'.off, cycle'.on) ELSE "loop"
    /\ UNCHANGED <<stop_event, disable_os_soft_reboot, clock, loops, summary, call,
                   server, returned>>

\* the third rung, with a power switch that does what it is asked
HardRung == HardRungWith({"SUCCESS"}, TelnetRuns)

\* a stop that clears the event when it is set
Machine_stop_toggle(stop) == ~stop

\* threading.Event.set(): the event is set, whatever it was
Machine_stop(stop) == TRUE

\* Machine.stop, called from another thread, any number of times
Stop ==
    /\ stop_event' = Machine_stop(stop_event)
    /\ UNCHANGED <<pc, machine, machine_events, command_factory,
                   disable_os_soft_reboot, clock, loops, summary, call, server, returned,
                   cycle, history>>

\* how long a receive may block: less than a second, or longer than the
\* command window
RecvWaits == {0, ONE_HOUR_WINDOW + 1}

Next ==
    \/ Start
    \/ LoopExit
    \/ LoopEnter(MaxLoops, RecvWaits)
    \/ Receive
    \/ Timeout
    \/ SoftOsRung
    \/ HardRung
    \/ Stop

Spec == Init /\ [][Next]_vars

\* the supervisor thread is scheduled: a step of Machine.run that can be taken
\* is taken, and a blocked receive ends with a datagram or with the timeout of
\* the socket
SpecLive ==
    /\ Spec
    /\ WF_vars(Start)
    /\ WF_vars(LoopExit)
    /\ WF_vars(Receive \/ Timeout)
    /\ WF_vars(SoftOsRung)
    /\ WF_vars(HardRung)

\* the supervisor when every receive times out
NextLadder ==
    \/ Start
    \/ LoopExit
    \/ LoopEnter(MaxLadderLoops, {0})
    \/ Timeout
    \/ SoftOsRung
    \/ HardRung
    \/ Stop

SpecLadder == Init /\ [][NextLadder]_vars

\* the supervisor when datagrams and timeouts follow each other within the
\* command window
NextEvents ==
    \/ Start
    \/ LoopExit
    \/ LoopEnter(MaxEventLoops, {0})
    \/ Receive
    \/ Timeout
    \/ SoftOsRung
    \/ HardRung
    \/ Stop

SpecEvents == Init /\ [][NextEvents]_vars

(* ---------------- create_summary on its own ---------------- *)
\* MachineEvents.create_summary, as far as the status goes
create_summary(e, m) ==
    DeriveStatus(e.run_start, m.soft_app_reboot_count, m.hard_reboot_count)

\* any run_start and any pair of consecutive reboot counters
InitStatus ==
    /\ pc = "summary"
    /\ stop_event = FALSE
    /\ \E soft \in 0..MaxCount, hard \in 0..MaxCount :
         machine = [MachineInit EXCEPT !.soft_app_reboot_count = soft,
                                       !.hard_reboot_count = hard]
    /\ \E run_start \in {None, 0, 1} :
         machine_events = [start_benchmark(MachineEventsInit, 0)
                             EXCEPT !.run_start = run_start]
    /\ command_factory = CommandFactoryInit(0)
    /\ disable_os_soft_reboot = FALSE
    /\ clock = 1
    /\ loops = 0
    /\ summary = "none"
    /\ call = "none"
    /\ returned = "none"
    /\ server = "none"
    /\ cycle = NoCycle
    /\ history = HistoryInit

CreateSummary ==
    /\ pc = "summary"
    /\ summary' = create_summary(machine_events, machine)
    /\ pc' = "done"
    /\ UNCHANGED <<stop_event, machine, machine_events, command_factory,
                   disable_os_soft_reboot, clock, loops, call, server, returned, cycle,
                   history>>

NextStatus == CreateSummary

SpecStatus == InitStatus /\ [][NextStatus]_vars

(* ---------------- the supervisor and a failing power switch ---------------- *)
\* loop iterations (timeouts) under SpecSwitch
MaxSwitchLoops == 2

\* the supervisor when every receive times out and the power switch returns
\* any status
NextSwitch ==
    \/ StartWith(SwitchStatuses, TelnetRuns)
    \/ LoopExit
    \/ LoopEnter(MaxSwitchLoops, {0})
    \/ Timeout
    \/ SoftOsRung
    \/ HardRungWith(SwitchStatuses, TelnetRuns)
    \/ Stop

SpecSwitch == Init /\ [][NextSwitch]_vars

(* ---------------- __soft_app_reboot on its own ---------------- *)
\* the end statuses Machine.run passes to __soft_app_reboot
EndStatuses == {"NORMAL_END", "SOFT_APP_REBOOT", "SOFT_OS_REBOOT", "HARD_REBOOT"}

\* any call of __soft_app_reboot: with or without a logger installed, at any
\* reboot count, with any previous end status, inside or outside the window
InitSoftApp ==
    /\ pc = "soft_app"
    /\ stop_event \in BOOLEAN
    /\ \E count \in 0..MAX_SEQUENTIALLY_SOFT_APP_REBOOTS, logger \in {None, 1} :
         machine = [MachineInit EXCEPT !.soft_app_reboot_count = count,
                                       !.dut_logging_obj = logger]
    /\ machine_events = MachineEventsInit
    /\ command_factory = CommandFactoryInit(0)
    /\ disable_os_soft_reboot = FALSE
    /\ clock \in RecvWaits
    /\ loops = 0
    /\ summary = "none"
    /\ \E previous \in EndStatuses \cup {"None"}, tn \in TelnetRuns :
         call = [previous_log_end_status |-> previous, tn |-> tn,
                 machine |-> machine, command_factory |-> command_factory]
    /\ returned = "none"
    /\ server = "none"
    /\ cycle = NoCycle
    /\ history = HistoryInit

SoftAppReboot ==
    /\ pc = "soft_app"
    /\ LET r == Machine_soft_app_reboot(machine, command_factory, stop_event,
                                        call.previous_log_end_status, call.tn, clock)
       IN
       /\ machine' = r.m
       /\ command_factory' = r.cf
       /\ returned' = [status |-> r.status, raised |-> r.raised,
                       sessions |-> r.sessions, log |-> r.log]
       /\ pc' = IF r.raised # "" THEN "crashed" ELSE "done"
    /\ UNCHANGED <<stop_event, machine_events, disable_os_soft_reboot, clock, loops,
                   summary, call, server, cycle, history>>

NextSoftApp == SoftAppReboot

SpecSoftApp == InitSoftApp /\ [][NextSoftApp]_vars

(* ---------------- the tries of __soft_app_reboot, one at a time ---------------- *)
\* How one try of __soft_app_reboot can end.  ConnectError: telnetlib.Telnet
\* raises an OSError other than EHOSTUNREACH (refused, timed out); LoginEOF
\* and LoginFails: the connection is made and the login dialog ends in
\* EOFError, or in a prompt that does not come (RuntimeError); EOFError and
\* WriteFails: after the login, read_very_eager raises EOFError or write
\* raises an OSError.
TryOutcomes ==
    {"ok", "EHOSTUNREACH", "ConnectError", "LoginEOF", "LoginFails", "EOFError",
     "WriteFails"}

\* __telnet_login: whether the connection was made, and the exception the try
\* ends in ("": none)
session_established(outcome) == outcome \notin {"EHOSTUNREACH", "ConnectError"}

raised_in_try(outcome) ==
    IF outcome = "ok" THEN ""
    ELSE IF outcome = "EHOSTUNREACH" THEN "OSError(EHOSTUNREACH)"
    ELSE IF outcome \in {"ConnectError", "WriteFails"} THEN "OSError"
    ELSE IF outcome = "LoginFails" THEN "RuntimeError"
    ELSE "EOFError"

\* whether the code closes the session of the try: the with statement does
\* when it was entered, that is when __telnet_login returned
session_closed(outcome) == outcome \in {"ok", "EOFError", "WriteFails"}

\* the except clauses of the try: the status returned, or "retry" when the
\* for loop goes on
except_clauses(raised) ==
    IF raised = "OSError(EHOSTUNREACH)" THEN "HOST_UNREACHABLE"
    ELSE IF raised = "OSError" THEN "retry"
    ELSE IF raised = "RuntimeError" THEN "TELNET_CONNECTION_ERROR"
    ELSE "retry"

\* the outcomes after which the for loop goes on
RetriedOutcomes ==
    { o \in TryOutcomes : raised_in_try(o) # "" /\ except_clauses(raised_in_try(o)) = "retry" }

\* the outcome a run of the remote shell gives to the try that follows its
\* retried tries
LastOutcome(tn) == IF tn.outcome = "RuntimeError" THEN "LoginFails" ELSE tn.outcome

\* what __soft_app_reboot has done so far: the status it returned ("-": still
\* running), the tries it made at a telnet session, the calls it made on
\* loggers, and where it was when stop was raised (try -1: stop was not
\* raised); the sessions established and those closed, how the latest try
\* ended, and the outcomes after which another try was made
NoReturn ==
    [status |-> "-", raised |-> "", sessions |-> 0, log |-> <<>>,
     stopped_pc |-> "-", stopped_try |-> None,
     established |-> 0, closed |-> 0, outcome |-> "-", reopened_after |-> {}]

\* what a try adds to the account of the sessions; a session the code does
\* not close is closed by the destructor of telnetlib.Telnet when the object
\* is collected, which may be before the call returns or not
AfterTry(ret, outcome, collected) ==
    [ret EXCEPT !.sessions = @ + 1,
                !.established = IF session_established(outcome) THEN @ + 1 ELSE @,
                !.closed = IF session_established(outcome)
                              /\ (session_closed(outcome) \/ collected)
                           THEN @ + 1 ELSE @,
                !.outcome = outcome,
                !.reopened_after = IF ret.outcome = "-" THEN @ ELSE @ \cup {ret.outcome}]

\* a call of __soft_app_reboot with stop not raised on entry; loops is try_i
InitTries ==
    /\ pc = "soft_app_head"
    /\ stop_event = FALSE
    /\ \E count \in 0..MAX_SEQUENTIALLY_SOFT_APP_REBOOTS, logger \in {None, 1} :
         machine = [MachineInit EXCEPT !.soft_app_reboot_count = count,
                                       !.dut_logging_obj = logger]
    /\ machine_events = MachineEventsInit
    /\ command_factory = CommandFactoryInit(0)
    /\ disable_os_soft_reboot = FALSE
    /\ clock \in RecvWaits
    /\ loops = 0
    /\ summary = "none"
    /\ \E previous \in EndStatuses \cup {"None"}, tn \in TelnetRuns :
         call = [previous_log_end_status |-> previous, tn |-> tn,
                 machine |-> machine, command_factory |-> command_factory]
    /\ returned = NoReturn
    /\ server = "none"
    /\ cycle = NoCycle
    /\ history = HistoryInit

\* the checks at the head of __soft_app_reboot and the selection of the command
SoftAppHead ==
    /\ pc = "soft_app_head"
    /\ IF stop_event THEN
           /\ returned' = [returned EXCEPT !.status = "THREAD_EVENT_IS_SET"]
           /\ pc' = "done"
           /\ UNCHANGED command_factory
       ELSE IF incorrect_configuration(call.previous_log_end_status,
                                       machine.dut_logging_obj) THEN
           /\ returned' = [returned EXCEPT !.raised = "RuntimeError"]
           /\ pc' = "crashed"
           /\ UNCHANGED command_factory
       ELSE IF machine.soft_app_reboot_count >= MAX_SEQUENTIALLY_SOFT_APP_REBOOTS THEN
           /\ returned' = [returned EXCEPT !.status = "MAXIMUM_APP_REBOOT_REACHED"]
           /\ pc' = "done"
           /\ UNCHANGED command_factory
       ELSE
           /\ command_factory' = get_commands_and_test_info(command_factory, clock)
           /\ pc' = "soft_app_try"
           /\ UNCHANGED returned
    /\ UNCHANGED <<stop_event, machine, machine_events, disable_os_soft_reboot, clock,
                   loops, summary, call, server, cycle, history>>

\* one pass of the for loop of __soft_app_reboot: the end of the range, the
\* break on stop, or one try
SoftAppTry ==
    /\ pc = "soft_app_try"
    /\ IF loops >= MAX_TELNET_TRIES \/ stop_event THEN
           /\ returned' = [returned EXCEPT !.status = "TELNET_CONNECTION_ERROR"]
           /\ pc' = "done"
           /\ UNCHANGED <<machine, loops>>
       ELSE \E collected \in BOOLEAN :
            \E outcome \in (IF loops < call.tn.eofs THEN RetriedOutcomes
                            ELSE {LastOutcome(call.tn)}) :
              LET status == except_clauses(raised_in_try(outcome))
                  ret == AfterTry(returned, outcome, collected)
              IN
              IF outcome = "ok" THEN
                  LET l == replace_dut_logging_obj(machine.dut_logging_obj,
                                                   call.previous_log_end_status,
                                                   command_factory.current_command)
                  IN
                  /\ returned' = [ret EXCEPT !.status = "SUCCESS", !.log = l.log]
                  /\ machine' = [machine EXCEPT !.dut_logging_obj = l.dut_logging_obj,
                                                !.soft_app_reboot_count = @ + 1]
                  /\ pc' = "done"
                  /\ UNCHANGED loops
              ELSE IF status = "retry" THEN
                  /\ returned' = ret
                  /\ loops' = loops + 1
                  /\ UNCHANGED <<pc, machine>>
              ELSE
                  /\ returned' = [ret EXCEPT !.status = status]
                  /\ pc' = "done"
                  /\ UNCHANGED <<machine, loops>>
    /\ UNCHANGED <<stop_event, machine_events, command_factory, disable_os_soft_reboot,
                   clock, summary, call, server, cycle, history>>

\* Machine.stop, called from another thread while __soft_app_reboot runs
StopDuringTries ==
    /\ ~stop_event
    /\ pc \in {"soft_app_head", "soft_app_try"}
    /\ stop_event' = TRUE
    /\ returned' = [returned EXCEPT !.stopped_pc = pc, !.stopped_try = loops]
    /\ UNCHANGED <<pc, machine, machine_events, command_factory,
                   disable_os_soft_reboot, clock, loops, summary, call, server, cycle, history>>

NextTries ==
    \/ SoftAppHead
    \/ SoftAppTry
    \/ StopDuringTries

SpecTries == InitTries /\ [][NextTries]_vars

(* ---------------- __hard_reboot, one step at a time ---------------- *)
\* time.sleep(duration): the time that has passed when it returns, whether or
\* not the stop event was set meanwhile
time_sleep(duration, stop) == duration

\* what __hard_reboot has done so far: its status ("-": still running), the
\* rest it asked for and the time the rest took, the statuses of the switch,
\* and where it was when stop was raised
NoHardReturn ==
    [status |-> "-", rest |-> 0, slept |-> 0, off |-> "-", on |-> "-",
     stopped_pc |-> "-"]

\* a call of __hard_reboot at any value of the three counters
InitHard ==
    /\ pc = "hard_head"
    /\ stop_event \in BOOLEAN
    /\ \E hard \in 0..(MAX_SEQUENTIALLY_HARD_REBOOTS + 1),
          app \in 0..MAX_SEQUENTIALLY_SOFT_APP_REBOOTS,
          os \in 0..MAX_SEQUENTIALLY_SOFT_OS_REBOOTS :
         machine = [MachineInit EXCEPT !.hard_reboot_count = hard,
                                       !.soft_app_reboot_count = app,
                                       !.soft_os_reboot_count = os,
                                       !.dut_logging_obj = 1]
    /\ machine_events = MachineEventsInit
    /\ command_factory = CommandFactoryInit(0)
    /\ disable_os_soft_reboot = FALSE
    /\ clock = 0
    /\ loops = 0
    /\ summary = "none"
    /\ call = [machine |-> machine]
    /\ returned = NoHardReturn
    /\ server = "none"
    /\ cycle = NoCycle
    /\ history = HistoryInit

\* the check of stop, the choice of the rest and the update of hard_reboot_count
HardRebootHead ==
    /\ pc = "hard_head"
    /\ LET hr == Machine_hard_reboot(machine, stop_event) IN
       IF hr.status = "THREAD_EVENT_IS_SET" THEN
           /\ returned' = [returned EXCEPT !.status = hr.status]
           /\ pc' = "done"
           /\ UNCHANGED machine
       ELSE
           /\ returned' = [returned EXCEPT !.rest = hr.rest]
           /\ machine' = [machine EXCEPT !.hard_reboot_count = hr.m.hard_reboot_count]
           /\ pc' = "switch_off"
    /\ UNCHANGED <<stop_event, machine_events, command_factory, disable_os_soft_reboot,
                   clock, loops, summary, call, server, cycle, history>>

\* reboot_machine: the OFF command
SwitchOff ==
    /\ pc = "switch_off"
    /\ \E off_status \in SwitchStatuses :
         returned' = [returned EXCEPT !.off = off_status]
    /\ pc' = "rest"
    /\ UNCHANGED <<stop_event, machine, machine_events, command_factory,
                   disable_os_soft_reboot, clock, loops, summary, call, server, cycle, history>>

\* reboot_machine: the rest between OFF and ON
Rest ==
    /\ pc = "rest"
    /\ LET slept == time_sleep(returned.rest, stop_event) IN
       /\ clock' = clock + slept
       /\ returned' = [returned EXCEPT !.slept = slept]
    /\ pc' = "switch_on"
    /\ UNCHANGED <<stop_event, machine, machine_events, command_factory,
                   disable_os_soft_reboot, loops, summary, call, server, cycle, history>>

\* reboot_machine: the ON command
SwitchOn ==
    /\ pc = "switch_on"
    /\ \E on_status \in SwitchStatuses :
         returned' = [returned EXCEPT !.on = on_status]
    /\ pc' = "booting"
    /\ UNCHANGED <<stop_event, machine, machine_events, command_factory,
                   disable_os_soft_reboot, clock, loops, summary, call, server, cycle, history>>

\* the end of __hard_reboot: the log of the statuses, __wait_for_booting and
\* the reset of the two soft counters
HardRebootEnd ==
    /\ pc = "booting"
    /\ machine' = [machine EXCEPT !.soft_app_reboot_count = 0,
                                  !.soft_os_reboot_count = 0]
    /\ returned' = [returned EXCEPT !.status = "None"]
    /\ pc' = "done"
    /\ UNCHANGED <<stop_event, machine_events, command_factory, disable_os_soft_reboot,
                   clock, loops, summary, call, server, cycle, history>>

\* Machine.stop, called from another thread while __hard_reboot runs
StopDuringHard ==
    /\ ~stop_event
    /\ pc \in {"switch_off", "rest", "switch_on", "booting"}
    /\ stop_event' = TRUE
    /\ returned' = [returned EXCEPT !.stopped_pc = pc]
    /\ UNCHANGED <<pc, machine, machine_events, command_factory,
                   disable_os_soft_reboot, clock, loops, summary, call, server, cycle, history>>

NextHard ==
    \/ HardRebootHead
    \/ SwitchOff
    \/ Rest
    \/ SwitchOn
    \/ HardRebootEnd
    \/ StopDuringHard

SpecHard == InitHard /\ [][NextHard]_vars

(* ---------------- server.py: starting and stopping the threads ---------------- *)
\* the enabled machines of the server's configuration
NumMachines == 3

Machines == 1..NumMachines

\* main: where main() is ("create": before Machine(...).start() of machine i,
\*   "append": before MACHINE_LIST.append, "status": before ServerStatus is
\*   started, "done": returned, "exit": sys.exit was called in the main thread)
\* started, ended: the Machine threads started, and those whose run has ended
\* stop: the machines whose stop event is set
\* status: where the ServerStatus thread is ("none": not started, "test": at
\*   the test of its loop, "poll", "wait", "ended")
\* status_stop, refresh_interval, passes: its stop signal, its interval, and
\*   the polling passes it has started
\* shutdown: what triggered __end_daemon_machines ("-": nothing yet)
ServerInit ==
    [main |-> "create", i |-> 1, MACHINE_LIST |-> {}, started |-> {}, ended |-> {},
     stop |-> {}, status |-> "none", status_stop |-> FALSE, refresh_interval |-> 1,
     passes |-> 0, shutdown |-> "-"]

InitServer ==
    /\ pc = "server"
    /\ stop_event = FALSE
    /\ machine = MachineInit
    /\ machine_events = MachineEventsInit
    /\ command_factory = CommandFactoryInit(0)
    /\ disable_os_soft_reboot = FALSE
    /\ clock = 0
    /\ loops = 0
    /\ summary = "none"
    /\ call = "none"
    /\ returned = "none"
    /\ server = ServerInit
    /\ cycle = NoCycle
    /\ history = HistoryInit

\* what no action of server.py changes
ServerOnly ==
    UNCHANGED <<pc, stop_event, machine, machine_events, command_factory,
                disable_os_soft_reboot, clock, loops, summary, call, returned,
                cycle, history>>

\* __end_daemon_machines: stop() on every machine of MACHINE_LIST (the joins
\* that follow change nothing); the ServerStatus object is a local of main()
\* and is not reached
end_daemon_machines(srv) == [srv EXCEPT !.stop = @ \cup srv.MACHINE_LIST]

\* main(): machine = Machine(...); machine.start()
MainStart ==
    /\ server.main = "create"
    /\ server.i <= NumMachines
    /\ server' = [server EXCEPT !.started = @ \cup {server.i}, !.main = "append"]
    /\ ServerOnly

\* main(): MACHINE_LIST.append(machine)
MainAppend ==
    /\ server.main = "append"
    /\ server' = [server EXCEPT !.MACHINE_LIST = @ \cup {server.i},
                                !.i = @ + 1,
                                !.main = IF server.i = NumMachines
                                         THEN "status" ELSE "create"]
    /\ ServerOnly

\* main(): server_status = ServerStatus(MACHINE_LIST); server_status.start()
MainStartStatus ==
    /\ server.main = "status"
    /\ server' = [server EXCEPT !.status = "test", !.main = "done"]
    /\ ServerOnly

\* SIGINT: __ctrlc_handler runs in the main thread, wherever main() is, and
\* ends it with sys.exit(130)
CtrlC ==
    /\ server.shutdown = "-"
    /\ server' = [end_daemon_machines(server) EXCEPT !.shutdown = "interrupt",
                                                     !.main = "exit"]
    /\ ServerOnly

\* the run of machine m ends in an exception nothing handles:
\* __machine_thread_exception_handler runs in that thread; main() goes on
MachineFails(m) ==
    /\ server.shutdown = "-"
    /\ m \in server.started \ server.ended
    /\ server' = [end_daemon_machines(server) EXCEPT !.shutdown = "failure",
                                                     !.ended = @ \cup {m}]
    /\ ServerOnly

\* the run of a machine whose stop event is set ends
MachineEnds(m) ==
    /\ m \in (server.started \cap server.stop) \ server.ended
    /\ server' = [server EXCEPT !.ended = @ \cup {m}]
    /\ ServerOnly

\* the polling passes of ServerStatus.run that are followed
MaxPasses == 2

\* utils.wait_time(duration): time.sleep
wait_time(duration, stop) == time_sleep(duration, stop)

\* ServerStatus.run: the test of the while loop
StatusTest ==
    /\ server.status = "test"
    /\ IF server.status_stop
       THEN server' = [server EXCEPT !.status = "ended"]
       ELSE /\ server.passes < MaxPasses
            /\ server' = [server EXCEPT !.status = "poll", !.passes = @ + 1]
    /\ ServerOnly

\* ServerStatus.run: create_summary of the machines, exported to the log
StatusPoll ==
    /\ server.status = "poll"
    /\ server' = [server EXCEPT !.status = "wait"]
    /\ summary' = create_summary(machine_events, machine)
    /\ UNCHANGED <<pc, stop_event, machine, machine_events, command_factory,
                   disable_os_soft_reboot, clock, loops, call, returned, cycle,
                   history>>

\* ServerStatus.run: wait_time(self.refresh_interval)
StatusWait ==
    /\ server.status = "wait"
    /\ server' = [server EXCEPT !.status = "test"]
    /\ clock' = clock + wait_time(server.refresh_interval, server.status_stop)
    /\ UNCHANGED <<pc, stop_event, machine, machine_events, command_factory,
                   disable_os_soft_reboot, loops, summary, call, returned, cycle,
                   history>>

NextServer ==
    \/ MainStart
    \/ MainAppend
    \/ MainStartStatus
    \/ CtrlC
    \/ \E m \in Machines : MachineFails(m)
    \/ \E m \in Machines : MachineEnds(m)
    \/ StatusTest
    \/ StatusPoll
    \/ StatusWait

SpecServer == InitServer /\ [][NextServer]_vars

(* ---------------- the ServerStatus thread on its own ---------------- *)
\* the refresh intervals ServerStatus is built with (1 s unless given)
RefreshIntervals == {1, 2, 5}

\* the ServerStatus thread just started, over machines that are running, one
\* of which is the machine of the model, in a run or not
InitAggregator ==
    /\ pc = "loop"
    /\ stop_event = FALSE
    /\ \E soft \in 0..1 :
         machine = [MachineInit EXCEPT !.soft_app_reboot_count = soft,
                                       !.dut_logging_obj = 1]
    /\ \E run_start \in {None, 0} :
         machine_events = [start_benchmark(MachineEventsInit, 0)
                             EXCEPT !.run_start = run_start]
    /\ command_factory = CommandFactoryInit(0)
    /\ disable_os_soft_reboot = FALSE
    /\ clock = 0
    /\ loops = 0
    /\ summary = "none"
    /\ call = "none"
    /\ returned = "none"
    /\ \E refresh_interval \in RefreshIntervals :
         server = [ServerInit EXCEPT !.main = "done", !.i = NumMachines + 1,
                                     !.MACHINE_LIST = Machines, !.started = Machines,
                                     !.status = "test",
                                     !.refresh_interval = refresh_interval]
    /\ cycle = NoCycle
    /\ history = HistoryInit

\* ServerStatus.stop, called from another thread
StatusStop ==
    /\ ~server.status_stop
    /\ server.status # "ended"
    /\ server' = [server EXCEPT !.status_stop = TRUE]
    /\ ServerOnly

NextAggregator ==
    \/ StatusTest
    \/ StatusPoll
    \/ StatusWait
    \/ StatusStop

SpecAggregator == InitAggregator /\ [][NextAggregator]_vars

(* ---------------- a summary built while the supervisor runs ---------------- *)
\* loop iterations of Machine.run under SpecRace
MaxRaceLoops == 2

\* the supervisor about to run, and the ServerStatus thread about to call
\* create_summary on it once
InitRace ==
    /\ pc = "init"
    /\ stop_event = FALSE
    /\ machine = MachineInit
    /\ machine_events = MachineEventsInit
    /\ command_factory = CommandFactoryInit(0)
    /\ disable_os_soft_reboot \in BOOLEAN
    /\ clock = 0
    /\ loops = 0
    /\ summary = "none"
    /\ call = "none"
    /\ returned = "none"
    /\ server = [ServerInit EXCEPT !.main = "done", !.i = NumMachines + 1,
                                   !.MACHINE_LIST = Machines, !.started = Machines,
                                   !.status = "poll", !.passes = 1]
    /\ cycle = NoCycle
    /\ history = HistoryInit

\* create_summary, first part: the status is derived from run_start and the
\* reboot counters as they are now
SummaryStatus ==
    /\ server.status = "poll"
    /\ summary' = create_summary(machine_events, machine)
    /\ server' = [server EXCEPT !.status = IF summary' = "ACTIVE" THEN "rates"
                                           ELSE "wait"]
    /\ UNCHANGED <<pc, stop_event, machine, machine_events, command_factory,
                   disable_os_soft_reboot, clock, loops, call, returned, cycle,
                   history>>

\* create_summary, second part, for ACTIVE: time.time() - self.benchmark_start
\* and time.time() - self.run_start, with the fields as they are now; a None
\* there is a TypeError
SummaryRates ==
    /\ server.status = "rates"
    /\ server' = [server EXCEPT !.status =
                     IF machine_events.benchmark_start = None
                        \/ machine_events.run_start = None
                     THEN "raised" ELSE "wait"]
    /\ UNCHANGED <<pc, stop_event, machine, machine_events, command_factory,
                   disable_os_soft_reboot, clock, loops, summary, call, returned,
                   cycle, history>>

NextRace ==
    \/ Start
    \/ LoopExit
    \/ LoopEnter(MaxRaceLoops, {0})
    \/ Receive
    \/ Timeout
    \/ SoftOsRung
    \/ HardRung
    \/ Stop
    \/ SummaryStatus
    \/ SummaryRates

SpecRace == InitRace /\ [][NextRace]_vars

(* ---------------- the supervisors and the default power switch ---------------- *)
\* what the shell command of _execute_command does: its exit status and the
\* number of lines it writes to its standard error
CommandOutcomes == [result : {0, 1}, stderr : {0, 1}]

\* the status _execute_command derives from the exit status and from the
\* lines it reads back from the file
execute_command_status(result, lines) ==
    IF lines # 0 \/ result # 0 THEN "GENERAL_ERROR" ELSE "SUCCESS"

\* file: the lines in /tmp/server_error_execute_command
\* sup: for each supervisor, where it is in _execute_command ("idle": before
\*   os.system, "ran": before the file is read, "done"), what its command did
\*   and the status it returned
SwitchFileInit ==
    [file |-> 0,
     sup |-> [m \in Machines |->
                [at |-> "idle", result |-> 0, stderr |-> 0, status |-> "-"]]]

\* several supervisors, each about to send one command to a default switch
InitSwitchFile ==
    /\ pc = "hard"
    /\ stop_event = FALSE
    /\ machine = MachineInit
    /\ machine_events = MachineEventsInit
    /\ command_factory = CommandFactoryInit(0)
    /\ disable_os_soft_reboot = FALSE
    /\ clock = 0
    /\ loops = 0
    /\ summary = "none"
    /\ call = "none"
    /\ returned = "none"
    /\ server = SwitchFileInit
    /\ cycle = NoCycle
    /\ history = HistoryInit

\* os.system(f"{cmd} 2>{tmp_file}") in the thread of supervisor m: the shell
\* truncates the file and the command writes its standard error to it
ExecuteSystem(m) ==
    /\ server.sup[m].at = "idle"
    /\ \E o \in CommandOutcomes :
         server' = [server EXCEPT !.file = o.stderr,
                                  !.sup[m].at = "ran",
                                  !.sup[m].result = o.result,
                                  !.sup[m].stderr = o.stderr]
    /\ ServerOnly

\* with open(tmp_file) as err: the lines now in the file decide the status
ExecuteRead(m) ==
    /\ server.sup[m].at = "ran"
    /\ server' = [server EXCEPT
                    !.sup[m].at = "done",
                    !.sup[m].status =
                        execute_command_status(server.sup[m].result, server.file)]
    /\ ServerOnly

NextSwitchFile ==
    \/ \E m \in Machines : ExecuteSystem(m)
    \/ \E m \in Machines : ExecuteRead(m)

SpecSwitchFile == InitSwitchFile /\ [][NextSwitchFile]_vars

(* ---------------- CommandFactory on its own ---------------- *)
\* the number of calls of get_commands_and_test_info that are followed
MaxCalls == 4

\* the time between two calls: none, half a window, a second more than that,
\* and more than a window
CallWaits == {0, ONE_HOUR_WINDOW \div 2, ONE_HOUR_WINDOW \div 2 + 1, ONE_HOUR_WINDOW + 1}

\* a CommandFactory built at time 0; returned is the list of what the calls
\* returned, with the time of the call and the number of advances so far
InitCommands ==
    /\ pc = "commands"
    /\ stop_event = FALSE
    /\ machine = MachineInit
    /\ machine_events = MachineEventsInit
    /\ command_factory = CommandFactoryInit(0)
    /\ disable_os_soft_reboot = FALSE
    /\ clock = 0
    /\ loops = 0
    /\ summary = "none"
    /\ call = "none"
    /\ returned = <<>>
    /\ server = "none"
    /\ cycle = NoCycle
    /\ history = HistoryInit

GetCommands ==
    /\ pc = "commands"
    /\ loops < MaxCalls
    /\ \E wait \in CallWaits :
         LET now == clock + wait
             advances == IF returned = <<>> THEN 0 ELSE returned[Len(returned)].advances
         IN
         /\ clock' = now
         /\ command_factory' = get_commands_and_test_info(command_factory, now)
         /\ returned' = Append(returned,
                [t |-> now,
                 code_name |-> command_factory'.current_command,
                 start_timestamp |-> command_factory'.start_timestamp,
                 advances |-> IF is_command_window_timeout(command_factory, now)
                              THEN advances + 1 ELSE advances])
    /\ loops' = loops + 1
    /\ UNCHANGED <<pc, stop_event, machine, machine_events, disable_os_soft_reboot,
                   summary, call, server, cycle, history>>

NextCommands == GetCommands

SpecCommands == InitCommands /\ [][NextCommands]_vars

(* ---------------- the exec string of a command ---------------- *)
\* an exec string is a sequence of words; the most "nohup" words in front of a
\* catalog entry and the most "&\r\n" words behind it
MaxAffixes == 3

\* what a catalog entry runs, the last one with a character outside ASCII
ExecBodies == { <<"./app">>, <<"./app", "-n", "1">>, <<"sudo", "./app">>, <<"./app", "<U+00E9>">> }

NonAsciiWords == {"<U+00E9>"}

RECURSIVE Repeat(_, _)
Repeat(word, n) == IF n = 0 THEN <<>> ELSE <<word>> \o Repeat(word, n - 1)

\* the exec strings of the catalogs
Execs ==
    { Repeat("nohup", n) \o body \o Repeat("&\r\n", k) :
        n \in 0..MaxAffixes, body \in ExecBodies, k \in 0..MaxAffixes }

\* str.encode(encoding='ascii'): the same characters as bytes, or
\* UnicodeEncodeError
encode(string) ==
    IF \E i \in DOMAIN string : string[i] \in NonAsciiWords
    THEN [raised |-> "UnicodeEncodeError", bytes |-> <<>>]
    ELSE [raised |-> "", bytes |-> string]

\* the cmd_exec of get_commands_and_test_info for a current command with the
\* given exec
cmd_exec(exec) == encode(exec)

InitExec ==
    /\ pc = "exec"
    /\ stop_event = FALSE
    /\ machine = MachineInit
    /\ machine_events = MachineEventsInit
    /\ command_factory = CommandFactoryInit(0)
    /\ disable_os_soft_reboot = FALSE
    /\ clock = 0
    /\ loops = 0
    /\ summary = "none"
    /\ \E exec \in Execs : call = [exec |-> exec]
    /\ returned = "none"
    /\ server = "none"
    /\ cycle = NoCycle
    /\ history = HistoryInit

GetCmdExec ==
    /\ pc = "exec"
    /\ returned' = cmd_exec(call.exec)
    /\ pc' = IF returned'.raised # "" THEN "crashed" ELSE "done"
    /\ UNCHANGED <<stop_event, machine, machine_events, command_factory,
                   disable_os_soft_reboot, clock, loops, summary, call, server, cycle, history>>

NextExec == GetCmdExec

SpecExec == InitExec /\ [][NextExec]_vars

(* ---------------- a run announced between hard reboots ---------------- *)
\* loop iterations under SpecSleeping
MaxSleepLoops == 8

\* utils.safe_max
safe_max(a, b) == IF a = None THEN b ELSE IF b = None THEN a ELSE IF a >= b THEN a ELSE b

\* create_summary for SLEEPING: last_reboot_attempt and next_reboot; adding
\* to None is a TypeError
SleepingSummary(e) ==
    LET last_reboot_attempt ==
            safe_max(e.last_hard_reboot_time, e.last_soft_reboot_time)
    IN
    IF last_reboot_attempt = None
    THEN [raised |-> "TypeError", last_reboot_attempt |-> None, next_reboot |-> None]
    ELSE [raised |-> "", last_reboot_attempt |-> last_reboot_attempt,
          next_reboot |-> last_reboot_attempt + SLEEP_TIME_AFTER_FAILED_REBOOTS]

\* the datagrams of a DUT that announces a run and ends it
RunDatagrams == { d \in Datagrams : d.ascii /\ d.head \in {"#HEADER", "#END"} }

ReceiveRun == \E d \in RunDatagrams : ReceiveDatagram(d)

\* the supervisor of a DUT that stays silent through hard reboots and then
\* announces a run
NextSleeping ==
    \/ Start
    \/ LoopExit
    \/ LoopEnter(MaxSleepLoops, {0})
    \/ ReceiveRun
    \/ Timeout
    \/ SoftOsRung
    \/ HardRung
    \/ Stop

SpecSleeping == Init /\ [][NextSleeping]_vars

(* ---------------- a DUT that is reachable and silent ---------------- *)
\* loop iterations (timeouts) under SpecSilent
MaxSilentLoops == 12

\* the remote shell of a DUT that is reachable: a session ends in a launch
\* within the tries, and the reboot command is taken
ReachableRuns == { tn \in TelnetRuns : tn.eofs < MAX_TELNET_TRIES /\ tn.outcome = "ok" }

ReachableOutcomes == {"ok"}

StartReachable == StartWith({"SUCCESS"}, ReachableRuns)

LoopEnterSilent == LoopEnter(MaxSilentLoops, {0})

TimeoutReachable == TimeoutWith(ReachableRuns)

SoftOsRungReachable == SoftOsRungWith(ReachableOutcomes, ReachableRuns)

HardRungReachable == HardRungWith({"SUCCESS"}, ReachableRuns)

\* the supervisor of a DUT that answers the remote shell and sends nothing
NextSilent ==
    \/ StartReachable
    \/ LoopExit
    \/ LoopEnterSilent
    \/ TimeoutReachable
    \/ SoftOsRungReachable
    \/ HardRungReachable
    \/ Stop

\* the supervisor thread is scheduled, and every receive ends with the timeout
\* of the socket
SpecSilent ==
    /\ Init
    /\ [][NextSilent]_vars
    /\ WF_vars(StartReachable)
    /\ WF_vars(LoopExit)
    /\ WF_vars(LoopEnterSilent)
    /\ WF_vars(TimeoutReachable)
    /\ WF_vars(SoftOsRungReachable)
    /\ WF_vars(HardRungReachable)

(* ---------------- a DUT that is healthy between timeouts ---------------- *)
\* loop iterations under SpecHealthy
MaxHealthyLoops == 5

\* the datagrams of a DUT that iterates
HealthyDatagrams == { d \in Datagrams : d.ascii /\ d.head = "#IT" /\ d.matches /\ d.iter > 0 }

ReceiveHealthy == \E d \in HealthyDatagrams : ReceiveDatagram(d)

\* the supervisor of a DUT whose receives time out or bring an iteration
NextHealthy ==
    \/ Start
    \/ LoopExit
    \/ LoopEnter(MaxHealthyLoops, {0})
    \/ ReceiveHealthy
    \/ Timeout
    \/ SoftOsRung
    \/ HardRung
    \/ Stop

SpecHealthy == Init /\ [][NextHealthy]_vars

(* ---------------- __soft_os_reboot on its own ---------------- *)
\* Machine.__wait_for_booting: SUCCESS at the first ping followed by a login,
\* HOST_UNREACHABLE when boot_waiting_time has passed or stop is raised
wait_for_booting(comes_back, stop) ==
    IF stop THEN "HOST_UNREACHABLE"
    ELSE IF comes_back THEN "SUCCESS"
    ELSE "HOST_UNREACHABLE"

\* any call of __soft_os_reboot: at any value of the three counters (a
\* disabled rung never counted), stop raised or not, whatever the remote
\* shell does and whether or not the DUT comes back within boot_waiting_time
InitSoftOs ==
    /\ pc = "soft_os_call"
    /\ stop_event \in BOOLEAN
    /\ disable_os_soft_reboot \in BOOLEAN
    /\ \E app \in 0..MAX_SEQUENTIALLY_SOFT_APP_REBOOTS,
          os \in 0..MAX_SEQUENTIALLY_SOFT_OS_REBOOTS,
          hard \in 0..(MAX_SEQUENTIALLY_HARD_REBOOTS + 1) :
         /\ disable_os_soft_reboot => os = 0
         /\ machine = [MachineInit EXCEPT !.soft_app_reboot_count = app,
                                          !.soft_os_reboot_count = os,
                                          !.hard_reboot_count = hard,
                                          !.dut_logging_obj = 1]
    /\ machine_events = MachineEventsInit
    /\ command_factory = CommandFactoryInit(0)
    /\ clock = 0
    /\ loops = 0
    /\ summary = "none"
    /\ \E tn \in TelnetOutcomes, comes_back \in BOOLEAN :
         call = [tn |-> tn, comes_back |-> comes_back, machine |-> machine]
    /\ returned = "none"
    /\ server = "none"
    /\ cycle = NoCycle
    /\ history = HistoryInit

\* one call of __soft_os_reboot; boot is what its __wait_for_booting returned
\* ("-": it was not called), sessions counts its own session and the login of
\* __wait_for_booting
SoftOsReboot ==
    /\ pc = "soft_os_call"
    /\ LET r == Machine_soft_os_reboot(machine, stop_event, disable_os_soft_reboot,
                                       call.tn)
           waited == r.sessions > 0 /\ call.tn = "ok"
           boot == IF waited THEN wait_for_booting(call.comes_back, stop_event) ELSE "-"
       IN
       /\ machine' = r.m
       /\ returned' = [status |-> r.status, boot |-> boot,
                       sessions |-> r.sessions + (IF boot = "SUCCESS" THEN 1 ELSE 0)]
    /\ pc' = "done"
    /\ UNCHANGED <<stop_event, machine_events, command_factory, disable_os_soft_reboot,
                   clock, loops, summary, call, server, cycle, history>>

NextSoftOs == SoftOsReboot

SpecSoftOs == InitSoftOs /\ [][NextSoftOs]_vars

(* ---------------- the escalation ladder ---------------- *)
NonSuccess(status) == status \notin {"-", "SUCCESS"}

\* C1: in the handler of a receive timeout the rungs run in the order
\* soft_app_reboot, soft_os_reboot, hard_reboot: soft_os_reboot is invoked only
\* if this cycle's soft_app_reboot returned a non-Success status, hard_reboot
\* only if this cycle's soft_os_reboot returned non-Success too, and no later
\* rung runs once a rung has returned SUCCESS.
C1_LadderOrder ==
    /\ pc = "soft_os" => NonSuccess(cycle.app) /\ cycle.os = "-" /\ cycle.hard = "-"
    /\ pc = "hard" => NonSuccess(cycle.app) /\ NonSuccess(cycle.os) /\ cycle.hard = "-"
    /\ cycle.os # "-" => NonSuccess(cycle.app)
    /\ cycle.hard # "-" => NonSuccess(cycle.app) /\ NonSuccess(cycle.os)
    /\ cycle.app = "SUCCESS" => cycle.os = "-" /\ cycle.hard = "-" /\ pc \notin {"soft_os", "hard"}
    /\ cycle.os = "SUCCESS" => cycle.hard = "-" /\ pc # "hard"

\* a cycle that went through the three rungs and power cycled the DUT
C1_Witness ==
    /\ cycle.hard = "None"
    /\ cycle.rest = POWER_SWITCH_DEFAULT_TIME_REST
    /\ cycle.app = "HOST_UNREACHABLE"
    /\ cycle.os = "HOST_UNREACHABLE"

\* C2 (as the specification states it): in a run of consecutive receive
\* timeouts, once six hard reboots have been performed the derived status is
\* SLEEPING, and every hard reboot after the sixth rests 1800 s instead of 4 s.
C2_Claim ==
    /\ (history.power_cycles >= MAX_SEQUENTIALLY_HARD_REBOOTS /\ pc = "loop")
         => Status = "SLEEPING"
    /\ (history.power_cycles > MAX_SEQUENTIALLY_HARD_REBOOTS /\ cycle.rest > 0)
         => cycle.rest = LONG_REBOOT_WAIT_TIME_AFTER_PROBLEM

\* C3 (as the specification states it): from zeroed reboot counters, under
\* repeated timeouts, a hard reboot is issued only after three soft OS
\* attempts.
C3_Claim ==
    (history.from_zero /\ cycle.hard # "-") => history.os_attempts >= 3

\* C3 (amended): under repeated timeouts, a timeout makes a soft app attempt
\* unless soft_app_reboot_count is 3 already; the second rung then makes a soft
\* OS attempt unless it is disabled, stop is raised or soft_os_reboot_count is
\* 3 already; and the hard reboot is issued in every cycle whose two first
\* rungs returned non-Success: at the first soft OS attempt that fails, or,
\* while they succeed, once three of them have succeeded.
C3_Ladder ==
    /\ machine.soft_app_reboot_count <= MAX_SEQUENTIALLY_SOFT_APP_REBOOTS
    /\ machine.soft_os_reboot_count <= MAX_SEQUENTIALLY_SOFT_OS_REBOOTS
    /\ pc = "soft_os" =>
         /\ cycle.app = "MAXIMUM_APP_REBOOT_REACHED"
              => machine.soft_app_reboot_count = MAX_SEQUENTIALLY_SOFT_APP_REBOOTS
         /\ machine.soft_app_reboot_count < MAX_SEQUENTIALLY_SOFT_APP_REBOOTS
              => cycle.app \in {"HOST_UNREACHABLE", "TELNET_CONNECTION_ERROR",
                                "THREAD_EVENT_IS_SET"}
    /\ pc = "hard" =>
         /\ NonSuccess(cycle.app)
         /\ cycle.os \in {"HOST_UNREACHABLE", "TELNET_CONNECTION_ERROR",
                          "DISABLED_SOFT_OS_REBOOT", "THREAD_EVENT_IS_SET",
                          "MAXIMUM_OS_REBOOT_REACHED"}
         /\ cycle.os = "MAXIMUM_OS_REBOOT_REACHED"
              => /\ machine.soft_os_reboot_count = MAX_SEQUENTIALLY_SOFT_OS_REBOOTS
                 /\ history.from_zero => history.os_attempts >= 3
         /\ cycle.os \in {"HOST_UNREACHABLE", "TELNET_CONNECTION_ERROR"}
              => /\ machine.soft_os_reboot_count < MAX_SEQUENTIALLY_SOFT_OS_REBOOTS
                 /\ history.from_zero => history.os_attempts >= 1

\* from zeroed counters, the hard reboot reached through both maxima
C3_Witness ==
    /\ pc = "hard"
    /\ history.from_zero
    /\ cycle.app = "MAXIMUM_APP_REBOOT_REACHED"
    /\ cycle.os = "MAXIMUM_OS_REBOOT_REACHED"

(* ---------------- datagrams and the reboot counters ---------------- *)
IsType(d, type) == d.ascii /\ connection_type_str(d) = type

\* C4 (as the specification states it, the window not expired): after the
\* main loop handles a datagram that begins with #IT, soft_app_reboot_count
\* and hard_reboot_count are 0; a datagram of any other type leaves the three
\* reboot counters unchanged.
C4_Claim ==
    [][\A d \in Datagrams :
         (ReceiveDatagram(d) /\ ~is_command_window_timeout(command_factory, clock)) =>
             IF d.head = "#IT"
             THEN /\ machine'.soft_app_reboot_count = 0
                  /\ machine'.hard_reboot_count = 0
             ELSE /\ machine'.soft_app_reboot_count = machine.soft_app_reboot_count
                  /\ machine'.soft_os_reboot_count = machine.soft_os_reboot_count
                  /\ machine'.hard_reboot_count = machine.hard_reboot_count]_vars

(* ---------------- the derived status ---------------- *)
StatusEdges ==
    { <<"UNKNOWN", "ACTIVE">>, <<"ACTIVE", "REBOOTING">>, <<"REBOOTING", "ACTIVE">>,
      <<"REBOOTING", "SLEEPING">>, <<"SLEEPING", "ACTIVE">> }

\* C5 (as the specification states it): the derived status changes only
\* along UNKNOWN->ACTIVE, ACTIVE->REBOOTING, REBOOTING->ACTIVE,
\* REBOOTING->SLEEPING and SLEEPING->ACTIVE.
C5_Claim == [][Status' # Status => <<Status, Status'>> \in StatusEdges]_vars

\* C6 (as the specification states it): once the derived status has left
\* ACTIVE, it does not become ACTIVE again before a #IT datagram is handled.
C6_Claim == [][history.left = "left" => Status' # "ACTIVE"]_vars

\* C6 (amended): the derived status becomes ACTIVE only in the handling of a
\* #HEADER datagram; so once it has left ACTIVE it does not become ACTIVE
\* again until a #HEADER datagram has been handled.
C6_ActiveByHeader ==
    [][(Status # "ACTIVE" /\ Status' = "ACTIVE")
         => \E d \in Datagrams : IsType(d, "#HEADER") /\ ReceiveDatagram(d)]_vars

\* the status is ACTIVE again after a run that was ended
C6_Witness == Status = "ACTIVE" /\ machine_events.last_run_start # None

\* C7: create_summary derives the status from run_start and the two counters
\* of consecutive reboots alone: ACTIVE if run_start is set; otherwise
\* REBOOTING if consecutive_hard_reboots < 6 and consecutive_soft_reboots > 0;
\* otherwise SLEEPING if consecutive_hard_reboots = 6; otherwise UNKNOWN.
C7_Status ==
    summary # "none" =>
        LET run_start == machine_events.run_start
            soft == machine.soft_app_reboot_count
            hard == machine.hard_reboot_count
            rebooting == hard < 6 /\ soft > 0
        IN
        /\ run_start # None => summary = "ACTIVE"
        /\ (run_start = None /\ rebooting) => summary = "REBOOTING"
        /\ (run_start = None /\ ~rebooting /\ hard = 6) => summary = "SLEEPING"
        /\ (run_start = None /\ ~rebooting /\ hard # 6) => summary = "UNKNOWN"

\* a summary derived at six hard reboots with soft reboots counted
C7_Witness ==
    /\ summary = "SLEEPING"
    /\ machine.soft_app_reboot_count > 0
    /\ machine.hard_reboot_count = 6

(* ---------------- the counters of MachineEvents ---------------- *)
\* C8 (as the specification states it): whenever no run is in progress,
\* benchmark_sdcs is the number of #SDC events accounted so far (every one of
\* them received during a run).
C8_Claim ==
    (machine_events.run_start = None /\ ~history.stray_sdc)
        => machine_events.benchmark_sdcs = history.sdc_events

\* a step of Machine.run that calls end_run
EndRunStep ==
    \/ Timeout
    \/ \E d \in Datagrams :
         /\ IsType(d, "#END") \/ IsType(d, "#ABORT")
         /\ ReceiveDatagram(d)
         /\ pc' = "loop"

\* C9 (as the specification states it): after end_run, benchmark_X is its
\* value before the call plus run_X, and run_X is 0, for X in sdcs,
\* iterations, acc_time.
C9_Claim ==
    [][EndRunStep =>
         /\ machine_events'.benchmark_sdcs =
              machine_events.benchmark_sdcs + machine_events.run_sdcs
         /\ machine_events'.benchmark_iterations =
              machine_events.benchmark_iterations + machine_events.run_iterations
         /\ machine_events'.benchmark_acc_time =
              machine_events.benchmark_acc_time + machine_events.run_acc_time
         /\ machine_events'.run_sdcs = 0
         /\ machine_events'.run_iterations = 0
         /\ machine_events'.run_acc_time = 0]_vars

\* C10 (as the specification states it): no benchmark counter decreases
\* from one state to the next.
C10_Claim ==
    [][/\ machine_events'.benchmark_logs >= machine_events.benchmark_logs
       /\ machine_events'.benchmark_iterations >= machine_events.benchmark_iterations
       /\ machine_events'.benchmark_sdcs >= machine_events.benchmark_sdcs
       /\ machine_events'.benchmark_dues >= machine_events.benchmark_dues
       /\ machine_events'.benchmark_soft_reboots >= machine_events.benchmark_soft_reboots
       /\ machine_events'.benchmark_hard_reboots >= machine_events.benchmark_hard_reboots
       /\ machine_events'.benchmark_acc_time >= machine_events.benchmark_acc_time]_vars

(* ---------------- runs ---------------- *)
\* a datagram of the given type is handled to the end of the try block
Handled(type) ==
    \E d \in Datagrams : IsType(d, type) /\ ReceiveDatagram(d) /\ pc' = "loop"

\* C11 (as the specification states it): run_start is set exactly while a run
\* is in progress: handling #HEADER or #BEGIN sets it, a termination event
\* (#END, #ABORT, receive timeout) clears it, and no other step changes
\* whether it is set.
C11_Claim ==
    [][/\ (Handled("#HEADER") \/ Handled("#BEGIN")) => machine_events'.run_start # None
       /\ EndRunStep => machine_events'.run_start = None
       /\ ~(Handled("#HEADER") \/ Handled("#BEGIN") \/ EndRunStep)
            => ((machine_events'.run_start = None) <=> (machine_events.run_start = None))]_vars

(* ---------------- what ends the supervisor ---------------- *)
\* C12 (as the specification states it): the main loop ends only when stop is
\* raised (or on the configuration error of __soft_app_reboot, which no call
\* of Machine.run can meet); no datagram, timeout or failed reboot step ends
\* the thread.
C12_Claim == pc # "crashed"

\* C13 (as the specification states it): a #IT datagram that does not match
\* the line format, received with a logger installed, is dropped: no field of
\* MachineEvents changes, no rung of the ladder runs, and the loop goes on to
\* the next receive.
C13_Claim ==
    [][\A d \in Datagrams :
         (IsType(d, "#IT") /\ ~d.matches /\ machine.dut_logging_obj # None
            /\ ReceiveDatagram(d)) =>
             /\ pc' = "loop"
             /\ machine_events' = machine_events
             /\ cycle'.os = "-" /\ cycle'.hard = "-"]_vars

\* C14 (as the specification states it): a datagram whose payload starts with
\* none of the known types is classified as unknown with the start of its
\* payload, changes no field of MachineEvents and raises nothing.
C14_Claim ==
    [][\A d \in Datagrams :
         (d.ascii /\ d.head = "#FOO" /\ ReceiveDatagram(d)) =>
             /\ connection_type_str(d) = "UnknownConn:#FOO"
             /\ machine_events' = machine_events
             /\ pc' = "loop"]_vars

(* ---------------- the precondition of __soft_app_reboot ---------------- *)
\* C15 (as the specification states it): with stop not raised,
\* __soft_app_reboot raises in both cases of a wrong configuration (no
\* previous end status with a logger installed, a previous end status with no
\* logger installed), opening no session and changing neither the command
\* rotator nor a counter.
C15_Claim ==
    (pc \in {"done", "crashed"} /\ ~stop_event
       /\ (call.previous_log_end_status = "None") # (call.machine.dut_logging_obj = None))
    => /\ returned.raised # ""
       /\ returned.sessions = 0
       /\ machine = call.machine
       /\ command_factory = call.command_factory

\* C15 (amended): with stop not raised, __soft_app_reboot raises exactly when
\* it is given no previous end status while a logger is installed, and then
\* opens no session and changes nothing; given a previous end status while no
\* logger is installed it goes on as a launch (below the maximum it opens a
\* session, and on success installs the first logger without finishing any).
C15_Configuration ==
    (pc \in {"done", "crashed"} /\ ~stop_event) =>
        LET previous == call.previous_log_end_status
            m == call.machine
        IN
        /\ returned.raised # "" <=> (previous = "None" /\ m.dut_logging_obj # None)
        /\ returned.raised # "" =>
             /\ returned.sessions = 0 /\ returned.log = <<>>
             /\ machine = m /\ command_factory = call.command_factory
        /\ (previous # "None" /\ m.dut_logging_obj = None
              /\ m.soft_app_reboot_count < MAX_SEQUENTIALLY_SOFT_APP_REBOOTS) =>
             /\ returned.sessions >= 1
             /\ returned.status = "SUCCESS" =>
                  /\ returned.log = <<[op |-> "DUTLogging",
                                       arg |-> command_factory.current_command]>>
                  /\ machine.dut_logging_obj = command_factory.current_command
                  /\ machine.soft_app_reboot_count = m.soft_app_reboot_count + 1

\* a launch with a previous end status and no logger installed that succeeded
C15_Witness ==
    /\ pc = "done" /\ ~stop_event
    /\ call.previous_log_end_status = "SOFT_APP_REBOOT"
    /\ call.machine.dut_logging_obj = None
    /\ returned.status = "SUCCESS"
    /\ machine.dut_logging_obj # None

(* ---------------- the loggers of a DUT ---------------- *)
\* what a call of __soft_app_reboot may do to loggers: nothing, or create one
\* after finishing the one installed, if any, with an end status
WellReplaced(dut_logging_obj, calls) ==
    \/ calls = <<>>
    \/ /\ dut_logging_obj = None
       /\ Len(calls) = 1
       /\ calls[1].op = "DUTLogging"
    \/ /\ dut_logging_obj # None
       /\ Len(calls) = 2
       /\ calls[1].op = "finish_this_dut_log"
       /\ calls[1].arg \in EndStatuses
       /\ calls[2].op = "DUTLogging"

FinishedWith(calls, end_status) ==
    \A i \in DOMAIN calls : calls[i].op = "finish_this_dut_log" => calls[i].arg = end_status

\* C16: at most one logger is open at any time, and a logger that is replaced
\* has been finished exactly once, with the end status given to
\* __soft_app_reboot (never none), before the new one is created.
C16_OneLogger ==
    [][/\ history'.open_logs <= 1
       /\ (history'.open_logs = 1) <=> (machine'.dut_logging_obj # None)
       /\ (Start \/ Receive \/ Timeout \/ SoftOsRung \/ HardRung)
            => WellReplaced(machine.dut_logging_obj, cycle'.log)
       /\ Receive => FinishedWith(cycle'.log, "NORMAL_END")
       /\ Timeout => FinishedWith(cycle'.log, "SOFT_APP_REBOOT")
       /\ SoftOsRung => FinishedWith(cycle'.log, "SOFT_OS_REBOOT")
       /\ HardRung => FinishedWith(cycle'.log, "HARD_REBOOT")]_vars

\* a logger was finished and replaced after a hard reboot
C16_Witness ==
    /\ Len(cycle.log) = 2
    /\ cycle.log[1] = [op |-> "finish_this_dut_log", arg |-> "HARD_REBOOT"]
    /\ history.open_logs = 1

(* ---------------- the expiry of the command window ---------------- *)
\* the command declared after c, the first one after the last
NextInDeclarationOrder(c) == json_data_list[(c % Len(json_data_list)) + 1]

\* C17 (as the specification states it): whenever a datagram is handled during
\* an active run while the command window has expired, __soft_app_reboot is
\* called with NORMAL_END, the installed logger is finished with NORMAL_END and
\* a new logger is created under the name of the next command in rotation.
C17_Claim ==
    [][(/\ Receive
        /\ pc' = "loop"
        /\ machine_events.run_start # None
        /\ is_command_window_timeout(command_factory, clock)) =>
            /\ cycle'.app # "-"
            /\ cycle'.log =
                 << [op |-> "finish_this_dut_log", arg |-> "NORMAL_END"],
                    [op |-> "DUTLogging",
                     arg |-> NextInDeclarationOrder(command_factory.current_command)] >>]_vars

(* ---------------- the rotation of the commands ---------------- *)
\* C18 (as the specification states it): with the catalog c1..cn in
\* declaration order, the first command selected is c1 and each advance
\* selects the next command in declaration order, cn being followed by c1.
C18_Claim ==
    \A i \in DOMAIN returned :
        returned[i].code_name =
            json_data_list[(returned[i].advances % Len(json_data_list)) + 1]

\* C19 (as the specification states it): a call of get_commands_and_test_info
\* that follows the previous call by less than the window returns the same
\* code_name as the call before it.
C19_Claim ==
    [][(/\ GetCommands
        /\ returned # <<>>
        /\ clock' - clock < ONE_HOUR_WINDOW) =>
            returned'[Len(returned')].code_name = returned[Len(returned)].code_name]_vars

\* C19 (amended): a call made no more than the window after the current
\* command was selected (by the constructor or by the last advance) keeps the
\* command and its start time, and so returns the same code_name as the call
\* before it.
C19_SameWithinWindow ==
    [][(/\ GetCommands
        /\ clock' - command_factory.start_timestamp <= ONE_HOUR_WINDOW) =>
            /\ command_factory'.current_command = command_factory.current_command
            /\ command_factory'.start_timestamp = command_factory.start_timestamp
            /\ returned # <<>> =>
                 returned'[Len(returned')].code_name = returned[Len(returned)].code_name]_vars

\* a call exactly one window after the command was selected returned the same
\* code_name as the call before it
C19_Witness ==
    \E i \in DOMAIN returned :
        /\ i > 1
        /\ returned[i].t - returned[i].start_timestamp = ONE_HOUR_WINDOW
        /\ returned[i].t > returned[i - 1].t
        /\ returned[i].code_name = returned[i - 1].code_name

(* ---------------- the form of cmd_exec ---------------- *)
\* C20 (as the specification states it): whatever number of nohup prefixes and
\* &\r\n suffixes the exec string of a catalog command has, none included, the
\* cmd_exec that get_commands_and_test_info returns begins with exactly one
\* "nohup" and ends with exactly one "&\r\n".
C20_Claim ==
    pc \in {"done", "crashed"} =>
        /\ returned.raised = ""
        /\ LET b == returned.bytes IN
           /\ Len(b) >= 3
           /\ b[1] = "nohup" /\ b[2] # "nohup"
           /\ b[Len(b)] = "&\r\n" /\ b[Len(b) - 1] # "&\r\n"

(* ---------------- stop during the tries of a launch ---------------- *)
\* stop was raised after a failed try of __soft_app_reboot and before the next
StoppedBetweenTries ==
    /\ returned.stopped_pc = "soft_app_try"
    /\ returned.stopped_try >= 1
    /\ returned.stopped_try < MAX_TELNET_TRIES

\* C21 (as the specification states it): if stop is raised while
\* __soft_app_reboot is between two tries, the call returns THREAD_EVENT_IS_SET,
\* opens no further session and does nothing more to the DUT.
C21_Claim ==
    (pc = "done" /\ StoppedBetweenTries) =>
        /\ returned.status = "THREAD_EVENT_IS_SET"
        /\ returned.sessions = returned.stopped_try
        /\ returned.log = <<>>

(* ---------------- the rest of a hard reboot ---------------- *)
\* C22 (as the specification states it): the rest between the OFF and the ON
\* of a hard reboot is waited on the stop event: if stop is raised during the
\* rest, the wait ends at once instead of lasting the remaining time.
C22_Claim ==
    [][(Rest /\ returned.stopped_pc = "rest") => clock' = clock]_vars

C27_SwitchFailure ==
    [][/\ (StartWith(SwitchStatuses, TelnetRuns) /\ cycle'.on # "SUCCESS")
            => (pc' = "loop" /\ cycle'.app # "-")
       /\ (HardRungWith(SwitchStatuses, TelnetRuns) /\ history'.switch_failed \cap {"OFF", "ON"} # {}
             /\ cycle'.rest > 0)
            => /\ pc' = "loop"
               /\ cycle'.relaunch # "-"
               /\ machine'.soft_os_reboot_count = 0
       /\ (history.switch_failed # {} /\ pc = "loop" /\ ~stop_event
             /\ loops < MaxSwitchLoops)
            => ENABLED LoopEnter(MaxSwitchLoops, {0})
       /\ (history.switch_failed # {} /\ Timeout)
            => /\ cycle'.app # "-"
               /\ machine_events'.benchmark_soft_reboots
                    = machine_events.benchmark_soft_reboots + 1
       /\ pc' # "crashed"
       /\ pc' = "exited" => stop_event]_vars

\* after a hard reboot whose OFF and ON both failed, the next receive timed
\* out and its first rung did not succeed: the escalation goes on
C27_Witness ==
    /\ {"OFF", "ON"} \subseteq history.switch_failed
    /\ loops = 2
    /\ pc = "soft_os"
    /\ ~stop_event
    /\ cycle.app # "-"

(* ---------------- raising stop ---------------- *)
\* C24: raising stop twice leaves the supervisor as raising it once does, and
\* a supervisor whose stop is raised, before its run starts or at any point
\* after, eventually ends its run without entering another iteration of the
\* loop.
C24_Stop ==
    /\ [][(Stop /\ stop_event) => UNCHANGED vars]_vars
    /\ [][stop_event => (stop_event' /\ loops' = loops)]_vars
    /\ stop_event ~> (pc \in {"exited", "crashed"})

\* stop was raised before the run started: the run has ended without any
\* launch and without entering the loop
C24_Witness ==
    /\ pc = "exited"
    /\ stop_event
    /\ loops = 0
    /\ cycle.app = "THREAD_EVENT_IS_SET"

(* ---------------- what is left open ---------------- *)
\* C25 (as the specification states it): after stop is raised and the run of
\* the supervisor has ended, the UDP socket is closed and the current logger
\* is released: no socket and no logger of that supervisor remains open.
C25_Claim ==
    (pc = "exited" /\ stop_event) =>
        /\ machine.messages_socket = "closed"
        /\ machine.dut_logging_obj = None
        /\ history.open_logs = 0

(* ---------------- shutdown ---------------- *)
\* C23 (as the specification states it): when shutdown is triggered (the
\* interrupt, or a failure of one supervisor that nothing handles), stop is
\* raised on every started supervisor, one started concurrently with the
\* interrupt included, and on the status thread.
C23_Claim ==
    [][(CtrlC \/ \E m \in Machines : MachineFails(m)) =>
          /\ server.started \subseteq (server'.stop \cup server'.ended)
          /\ server.status \in {"test", "poll", "wait"} => server'.status_stop]_vars

(* ---------------- stopping the status thread ---------------- *)
\* C28 (as the specification states it): ServerStatus waits its refresh
\* interval on the stop event: once stop is raised on it, it starts no new
\* polling pass, a wait in progress ends without lasting the rest of the
\* interval, and its loop ends.
C28_Claim ==
    [][/\ (StatusTest /\ server.status_stop)
            => (server'.status = "ended" /\ server'.passes = server.passes)
       /\ (StatusWait /\ server.status_stop) => clock' = clock]_vars

(* ---------------- a summary and the events of the supervisor ---------------- *)
\* C30 (as the specification states it): a summary built by the status thread
\* while the supervisor handles events always completes: once it has found the
\* status ACTIVE it never computes a rate from a run_start that end_run has set
\* to None meanwhile, nor from a benchmark_start that is None.
C30_Claim ==
    /\ server.status # "raised"
    /\ server.status = "rates" =>
         (machine_events.run_start # None /\ machine_events.benchmark_start # None)

(* ---------------- what the supervisors share ---------------- *)
\* C26 (as the specification states it): no mutable state is shared between
\* two supervisors: the status a supervisor obtains for its power-switch
\* command is the one its own command gives, under every interleaving with the
\* other supervisors.
C26_Claim ==
    \A m \in Machines :
        server.sup[m].at = "done" =>
            server.sup[m].status =
                execute_command_status(server.sup[m].result, server.sup[m].stderr)

(* ---------------- the summary of a sleeping DUT ---------------- *)
\* C31 (as the specification states it): whenever the derived status is
\* SLEEPING, at least one of last_hard_reboot_time and last_soft_reboot_time is
\* set, so that last_reboot_attempt and next_reboot are defined, also after a
\* #HEADER followed by a #END with no #IT in between.
C31_Claim ==
    Status = "SLEEPING" =>
        /\ (machine_events.last_hard_reboot_time # None
              \/ machine_events.last_soft_reboot_time # None)
        /\ SleepingSummary(machine_events).raised = ""

(* ---------------- the budgets of the soft reboots ---------------- *)
\* C32: if every receive times out while the DUT stays reachable over the
\* remote shell and silent, and stop is never raised, a hard reboot is
\* eventually performed: no later than the handler of the twelfth timeout, and
\* not before the soft budgets are used up (soft_app_reboot_count and, unless
\* soft OS reboots are disabled, soft_os_reboot_count at their maximum).
C32_HardRebootEventually ==
    /\ ([]~stop_event) => <>(history.power_cycles > 0)
    /\ []((pc = "hard" /\ ~stop_event) =>
            /\ cycle.app = "MAXIMUM_APP_REBOOT_REACHED"
            /\ machine.soft_app_reboot_count = MAX_SEQUENTIALLY_SOFT_APP_REBOOTS
            /\ IF disable_os_soft_reboot
               THEN cycle.os = "DISABLED_SOFT_OS_REBOOT"
               ELSE /\ cycle.os = "MAXIMUM_OS_REBOOT_REACHED"
                    /\ machine.soft_os_reboot_count = MAX_SEQUENTIALLY_SOFT_OS_REBOOTS)
    /\ []((loops = MaxSilentLoops /\ pc = "loop" /\ ~stop_event)
            => history.power_cycles > 0)

\* the hard reboot of a reachable DUT after three successful soft OS reboots,
\* in the handler of the twelfth timeout
C32_Witness ==
    /\ history.power_cycles = 1
    /\ cycle.hard = "None"
    /\ cycle.os = "MAXIMUM_OS_REBOOT_REACHED"
    /\ cycle.app = "MAXIMUM_APP_REBOOT_REACHED"
    /\ loops = 12
    /\ ~stop_event

C34_Claim ==
    /\ machine.soft_app_reboot_count <= MAX_SEQUENTIALLY_SOFT_APP_REBOOTS
    /\ machine.soft_os_reboot_count <= MAX_SEQUENTIALLY_SOFT_OS_REBOOTS
    /\ machine.hard_reboot_count <= MAX_SEQUENTIALLY_HARD_REBOOTS

(* ---------------- the tries of a launch ---------------- *)
\* C35 (as the specification states it): a call of __soft_app_reboot with
\* soft_app_reboot_count >= 3 returns MAXIMUM_APP_REBOOT_REACHED without
\* opening a session; otherwise it opens at most 4 sessions, opens another one
\* only after an EOF on the previous session (a try whose connection was not
\* made opened no session and is not counted here), returns at once on host
\* unreachable or on a login failure, and adds exactly 1 to
\* soft_app_reboot_count if and only if it returns SUCCESS.
C35_Claim ==
    (pc = "done" /\ ~stop_event) =>
        /\ call.machine.soft_app_reboot_count >= MAX_SEQUENTIALLY_SOFT_APP_REBOOTS
             => (returned.status = "MAXIMUM_APP_REBOOT_REACHED" /\ returned.sessions = 0)
        /\ call.machine.soft_app_reboot_count < MAX_SEQUENTIALLY_SOFT_APP_REBOOTS
             => /\ returned.sessions <= MAX_TELNET_TRIES
                /\ { o \in returned.reopened_after : session_established(o) }
                     \subseteq {"EOFError", "LoginEOF"}
                /\ returned.outcome = "EHOSTUNREACH" => returned.status = "HOST_UNREACHABLE"
                /\ returned.outcome = "LoginFails"
                     => returned.status = "TELNET_CONNECTION_ERROR"
        /\ machine.soft_app_reboot_count =
             call.machine.soft_app_reboot_count
               + (IF returned.status = "SUCCESS" THEN 1 ELSE 0)

(* ---------------- the sessions of the remote shell ---------------- *)
\* C38 (as the specification states it): every session of the remote shell
\* that is opened is closed by the time the operation returns, on every path:
\* success, EOF, a write failure, and a login dialog that fails after the
\* connection was made.
C38_Claim ==
    pc = "done" => returned.closed = returned.established

(* ---------------- the checks at the head of __soft_os_reboot ---------------- *)
\* C36: __soft_os_reboot returns THREAD_EVENT_IS_SET if stop is raised,
\* otherwise DISABLED_SOFT_OS_REBOOT if it is disabled by the configuration,
\* otherwise MAXIMUM_OS_REBOOT_REACHED if soft_os_reboot_count >= 3; in each of
\* the three cases no session is opened and none of the three reboot counters
\* changes.
C36_EarlyReturns ==
    pc = "done" =>
        LET max == call.machine.soft_os_reboot_count >= MAX_SEQUENTIALLY_SOFT_OS_REBOOTS
        IN
        /\ stop_event => returned.status = "THREAD_EVENT_IS_SET"
        /\ (~stop_event /\ disable_os_soft_reboot)
             => returned.status = "DISABLED_SOFT_OS_REBOOT"
        /\ (~stop_event /\ ~disable_os_soft_reboot /\ max)
             => returned.status = "MAXIMUM_OS_REBOOT_REACHED"
        /\ (stop_event \/ disable_os_soft_reboot \/ max) =>
             /\ returned.sessions = 0
             /\ returned.boot = "-"
             /\ machine.soft_app_reboot_count = call.machine.soft_app_reboot_count
             /\ machine.soft_os_reboot_count = call.machine.soft_os_reboot_count
             /\ machine.hard_reboot_count = call.machine.hard_reboot_count
        /\ returned.status \in {"THREAD_EVENT_IS_SET", "DISABLED_SOFT_OS_REBOOT",
                                "MAXIMUM_OS_REBOOT_REACHED"}
             => (stop_event \/ disable_os_soft_reboot \/ max)

\* a call with stop raised on a DUT whose soft OS reboots are disabled has
\* returned THREAD_EVENT_IS_SET, the remote shell being there
C36_Witness ==
    /\ pc = "done"
    /\ stop_event /\ disable_os_soft_reboot
    /\ call.tn = "ok"
    /\ call.machine.soft_app_reboot_count = 3
    /\ returned.status = "THREAD_EVENT_IS_SET"
    /\ returned.sessions = 0

(* ---------------- the boot after a soft OS reboot ---------------- *)
\* C37 (as the specification states it): __soft_os_reboot returns SUCCESS
\* (resetting soft_app_reboot_count and adding 1 to soft_os_reboot_count) only
\* if the __wait_for_booting that follows the reboot command returned SUCCESS;
\* when the DUT does not come back within boot_waiting_time it returns a
\* failure status, so that the ladder goes on to the hard reboot.
C37_Claim ==
    pc = "done" =>
        /\ returned.status = "SUCCESS" => returned.boot = "SUCCESS"
        /\ returned.boot = "HOST_UNREACHABLE" =>
             /\ returned.status \in {"HOST_UNREACHABLE", "TELNET_CONNECTION_ERROR"}
             /\ after_soft_os_reboot(returned.status) = "hard"
             /\ machine.soft_os_reboot_count = call.machine.soft_os_reboot_count

(* ---------------- the count of the hard reboots ---------------- *)
\* C39 (as the specification states it): benchmark_hard_reboots is the number
\* of power cycles issued through the power switch: it grows by one in a step
\* that power cycles the DUT and in no other step, and events.hard_reboot() is
\* never recorded for a __hard_reboot that returned THREAD_EVENT_IS_SET without
\* acting on the switch.
C39_Claim ==
    [][/\ machine_events'.benchmark_hard_reboots - machine_events.benchmark_hard_reboots
            = (IF HardRung /\ cycle'.rest > 0 THEN 1 ELSE 0)
       /\ (HardRung /\ cycle'.hard = "THREAD_EVENT_IS_SET")
            => machine_events'.benchmark_hard_reboots
                 = machine_events.benchmark_hard_reboots]_vars

(* ---------------- the logger and the current command ---------------- *)
\* C40 (as the specification states it): whenever a logger is open, its test
\* name is the code_name of the current command of the rotator: the rotator
\* never advances to a command (and restarts its window) whose launch then
\* fails while the logger of the previous command stays open.
C40_Claim ==
    machine.dut_logging_obj # None
        => machine.dut_logging_obj = command_factory.current_command

====
